---- MODULE Spec2Model ----
(***************************************************************************)
(* Model of the MAMOS dashboard data engine (scripts/update-data.js):      *)
(* the indicator normalizers fetchHashrate, fetchLiquidations and          *)
(* fetchCOTData, the static fallbacks, and the signal aggregator           *)
(* generateAnalysis.                                                       *)
(*                                                                         *)
(* Number representation.  The JavaScript code works on doubles; the model *)
(* keeps every quantity as an integer in the unit in which the code        *)
(* compares it:                                                            *)
(*   - percentages produced by toFixed(1) are kept in tenths of a percent  *)
(*     (65.0% is 650), so the threshold "> 60" is "> 600";                 *)
(*   - the taker buy/sell ratio produced by toFixed(2) is kept in          *)
(*     hundredths (0.95 is 95);                                            *)
(*   - liquidation values are kept in units of 100 000 USD, so that        *)
(*     (x / 1e6).toFixed(1) is the value itself, in tenths of a million;   *)
(*   - times are minutes.                                                  *)
(***************************************************************************)
EXTENDS Integers, Sequences, FiniteSets, TLC

VARIABLES
    pc,          \* position of the run: "start", then "returned"
    raw,         \* the raw payload the normalizer under study is given
    data,        \* the data object of main: one field per indicator
    signals,     \* generateAnalysis: the local list signals, untruncated
    bullScore,   \* generateAnalysis: the local bullScore
    bearScore,   \* generateAnalysis: the local bearScore
    analysis,    \* the value generateAnalysis returned, or Null
    record,      \* the value the normalizer under study returned, or Null
    tradingPlan, \* main: the value generateTradingPlan returned, or Null
    apiKey,      \* whether process.env.GROQ_API_KEY is set
    groq,        \* what the LLM service does with the request, "none" before it
    requests,    \* the number of requests sent to the LLM service
    story,       \* the value generateStory returned, or Null
    script,      \* the script whose process runs, "none" for a function alone
    fetches,     \* update-data.js: the promise of each call main makes
    error,       \* the error main rejected with, "none" before
    exitCode,    \* the exit code of the process, -1 while it runs
    disk,        \* whether fs.writeFileSync succeeds: "ok" or "fails"
    inputFile,   \* the file the script reads: "absent", "invalid", "valid"
    news,        \* the news engines: the items, as far as they are processed
    context,     \* the news engine: the value of getMarketContext, or Null
    narrative,   \* the news engine: the value of generateNarrative, or Null
    written,     \* the document the script wrote, or Null
    reads,       \* the reads of files the script made: [file, content]
    writer       \* a concurrent run of update-data.js at its writeFileSync

vars == <<pc, raw, data, signals, bullScore, bearScore, analysis, record,
          tradingPlan, apiKey, groq, requests, story, script, fetches, error,
          exitCode, disk, inputFile, news, context, narrative, written,
          reads, writer>>

\* The variables of a process: its script, its environment, its output.
procVars == <<script, fetches, error, exitCode, disk, inputFile, news,
              context, narrative, written, reads, writer>>

\* The variables of generateStory.
storyVars == <<apiKey, groq, requests, story>>

\* The variables of the steps of main after the aggregation.
afterAnalysis == <<tradingPlan, apiKey, groq, requests, story, script,
                   fetches, error, exitCode, disk, inputFile, news, context,
                   narrative, written, reads, writer>>

\* JavaScript null: an absent indicator.
Null == [null |-> TRUE]

----------------------------------------------------------------------------
(* Arithmetic helpers *)

Abs(x) == IF x < 0 THEN -x ELSE x

Max(a, b) == IF a >= b THEN a ELSE b

Min(a, b) == IF a <= b THEN a ELSE b

\* ((num / den) * 100).toFixed(1), in tenths of a percent: the nearest tenth,
\* a tie going away from zero (Number.prototype.toFixed picks the larger n).
PctTenths(num, den) ==
    LET q == (2 * 1000 * Abs(num) + den) \div (2 * den)
    IN  IF num < 0 THEN -q ELSE q

----------------------------------------------------------------------------
(* generateAnalysis: the weighted rules, in the order of the code *)

\* signals.push({type, weight, reason}); bullScore += bull; bearScore += bear.
\* The pushed weight and the two increments are separate literals in the code
\* and are kept separate here.
Push(acc, type, weight, reason, bull, bear) ==
    [signals   |-> Append(acc.signals,
                          [type |-> type, weight |-> weight, reason |-> reason]),
     bullScore |-> acc.bullScore + bull,
     bearScore |-> acc.bearScore + bear]

\* Variant of FearGreedRule with strict comparisons (fg < 15, fg < 25,
\* fg > 80, fg > 65).
FearGreedRuleStrict(acc, d) ==
    IF d.fearGreed # Null
    THEN LET fg == d.fearGreed.current
         IN  IF fg < 15
             THEN Push(acc, "bullish", 3, "Extreme Fear historique - zone d'achat", 3, 0)
             ELSE IF fg < 25
             THEN Push(acc, "bullish", 2, "Fear elevee - opportunite possible", 2, 0)
             ELSE IF fg > 80
             THEN Push(acc, "bearish", 3, "Extreme Greed - prudence maximale", 0, 3)
             ELSE IF fg > 65
             THEN Push(acc, "bearish", 2, "Greed elevee - attention", 0, 2)
             ELSE acc
    ELSE acc

\* Fear & Greed Analysis
FearGreedRule(acc, d) ==
    IF d.fearGreed # Null
    THEN LET fg == d.fearGreed.current
         IN  IF fg <= 15
             THEN Push(acc, "bullish", 3, "Extreme Fear historique - zone d'achat", 3, 0)
             ELSE IF fg <= 25
             THEN Push(acc, "bullish", 2, "Fear elevee - opportunite possible", 2, 0)
             ELSE IF fg >= 80
             THEN Push(acc, "bearish", 3, "Extreme Greed - prudence maximale", 0, 3)
             ELSE IF fg >= 65
             THEN Push(acc, "bearish", 2, "Greed elevee - attention", 0, 2)
             ELSE acc
    ELSE acc

\* Variant of COTRule with the hedge-fund threshold at 65 instead of 60.
COTRuleThreshold65(acc, d) ==
    IF d.cot # Null
    THEN LET a1 == IF d.cot.categories.leveragedFunds.shortPct > 650
                   THEN Push(acc, "bullish", 2,
                             "Hedge Funds tres short - squeeze possible", 2, 0)
                   ELSE acc
         IN  IF d.cot.categories.assetManagers.signal = "bullish"
             THEN Push(a1, "bullish", 2, "Institutions accumulent", 2, 0)
             ELSE a1
    ELSE acc

\* COT Analysis: two independent ifs under the guard on cot
COTRule(acc, d) ==
    IF d.cot # Null
    THEN LET a1 == IF d.cot.categories.leveragedFunds.shortPct > 600
                   THEN Push(acc, "bullish", 2,
                             "Hedge Funds tres short - squeeze possible", 2, 0)
                   ELSE acc
         IN  IF d.cot.categories.assetManagers.signal = "bullish"
             THEN Push(a1, "bullish", 2, "Institutions accumulent", 2, 0)
             ELSE a1
    ELSE acc

\* Variant of ETFRule that substitutes the cached flows (daily 145,
\* weekly -580) for a missing etf indicator.
ETFRuleCachedDefault(acc, d) ==
    LET etf == IF d.etf # Null THEN d.etf ELSE [daily |-> 145, weekly |-> -580]
        a1  == IF etf.daily > 50
               THEN Push(acc, "bullish", 1, "ETF inflows positifs", 1, 0)
               ELSE IF etf.daily < -100
               THEN Push(acc, "bearish", 2, "ETF outflows importants", 0, 2)
               ELSE acc
    IN  IF etf.weekly < -300
        THEN Push(a1, "bearish", 2, "ETF outflows sur la semaine", 0, 2)
        ELSE a1

\* ETF Flows: daily (if / else if), then weekly
ETFRule(acc, d) ==
    IF d.etf # Null
    THEN LET a1 == IF d.etf.daily > 50
                   THEN Push(acc, "bullish", 1, "ETF inflows positifs", 1, 0)
                   ELSE IF d.etf.daily < -100
                   THEN Push(acc, "bearish", 2, "ETF outflows importants", 0, 2)
                   ELSE acc
         IN  IF d.etf.weekly < -300
             THEN Push(a1, "bearish", 2, "ETF outflows sur la semaine", 0, 2)
             ELSE a1
    ELSE acc

\* Long/Short Ratio: data.longShort?.signal
LongShortRule(acc, d) ==
    IF d.longShort # Null /\ d.longShort.signal = "squeeze_possible"
    THEN Push(acc, "bullish", 1, "Retail tres short - potentiel squeeze", 1, 0)
    ELSE IF d.longShort # Null /\ d.longShort.signal = "dump_possible"
    THEN Push(acc, "bearish", 1, "Retail tres long - risque de dump", 0, 1)
    ELSE acc

\* Variant of FundingRule that pushes its entries without counting them.
FundingRuleUncounted(acc, d) ==
    IF d.funding # Null /\ d.funding.signal = "bounce_likely"
    THEN Push(acc, "bullish", 1, "Funding negatif - shorts paient", 0, 0)
    ELSE IF d.funding # Null /\ d.funding.signal = "correction_likely"
    THEN Push(acc, "bearish", 1, "Funding tres eleve - surchauffe", 0, 0)
    ELSE acc

\* Funding: data.funding?.signal
FundingRule(acc, d) ==
    IF d.funding # Null /\ d.funding.signal = "bounce_likely"
    THEN Push(acc, "bullish", 1, "Funding negatif - shorts paient", 1, 0)
    ELSE IF d.funding # Null /\ d.funding.signal = "correction_likely"
    THEN Push(acc, "bearish", 1, "Funding tres eleve - surchauffe", 0, 1)
    ELSE acc

\* Liquidations: data.liquidations?.signal
LiquidationsRule(acc, d) ==
    IF d.liquidations # Null /\ d.liquidations.signal = "shorts_rekt"
    THEN Push(acc, "bullish", 1, "Shorts liquides massivement", 1, 0)
    ELSE IF d.liquidations # Null /\ d.liquidations.signal = "longs_rekt"
    THEN Push(acc, "bearish", 1, "Longs liquides - capitulation", 0, 1)
    ELSE acc

\* Variant of HashrateRule whose crashing branch pushes weight 2 but adds 1.
HashrateRuleSlip(acc, d) ==
    IF d.hashrate # Null /\ d.hashrate.signal = "bullish"
    THEN Push(acc, "bullish", 1, "Hashrate en hausse - mineurs confiants", 1, 0)
    ELSE IF d.hashrate # Null
            /\ (d.hashrate.signal = "bearish" \/ d.hashrate.trend = "crashing")
    THEN Push(acc, "bearish", 2, "Hashrate en chute - mineurs en difficulte", 0, 1)
    ELSE IF d.hashrate # Null /\ d.hashrate.trend = "dropping"
    THEN Push(acc, "bearish", 1, "Hashrate en baisse", 0, 1)
    ELSE acc

\* Hashrate: data.hashrate?.signal, data.hashrate?.trend
HashrateRule(acc, d) ==
    IF d.hashrate # Null /\ d.hashrate.signal = "bullish"
    THEN Push(acc, "bullish", 1, "Hashrate en hausse - mineurs confiants", 1, 0)
    ELSE IF d.hashrate # Null
            /\ (d.hashrate.signal = "bearish" \/ d.hashrate.trend = "crashing")
    THEN Push(acc, "bearish", 2, "Hashrate en chute - mineurs en difficulte", 0, 2)
    ELSE IF d.hashrate # Null /\ d.hashrate.trend = "dropping"
    THEN Push(acc, "bearish", 1, "Hashrate en baisse", 0, 1)
    ELSE acc

\* Variant of TakerRule that reads a missing ratio as 0.
TakerRuleDefaultZero(acc, d) ==
    LET ratio == IF d.longShort # Null THEN d.longShort.takerBuySellRatio ELSE 0
    IN  IF ratio < 95
        THEN Push(acc, "bearish", 1, "Plus de vendeurs que d'acheteurs", 0, 1)
        ELSE IF ratio > 105
        THEN Push(acc, "bullish", 1, "Plus d'acheteurs que de vendeurs", 1, 0)
        ELSE acc

\* Taker Buy/Sell Ratio: the toFixed(2) string is never empty, so the guard
\* data.longShort?.takerBuySellRatio holds whenever longShort is present.
TakerRule(acc, d) ==
    IF d.longShort # Null
    THEN LET ratio == d.longShort.takerBuySellRatio
         IN  IF ratio < 95
             THEN Push(acc, "bearish", 1, "Plus de vendeurs que d'acheteurs", 0, 1)
             ELSE IF ratio > 105
             THEN Push(acc, "bullish", 1, "Plus d'acheteurs que de vendeurs", 1, 0)
             ELSE acc
    ELSE acc

\* const signals = []; let bullScore = 0, bearScore = 0;
EmptyAcc == [signals |-> << >>, bullScore |-> 0, bearScore |-> 0]

\* The locals of generateAnalysis after the last rule.
RunRules(d) ==
    TakerRule(
      HashrateRule(
        LiquidationsRule(
          FundingRule(
            LongShortRule(
              ETFRule(
                COTRule(
                  FearGreedRule(EmptyAcc, d), d), d), d), d), d), d), d)

\* Variant of NetScore with the operands swapped.
NetScoreSwapped(bull, bear) == bear - bull

\* const netScore = bullScore - bearScore
NetScore(bull, bear) == bull - bear

\* Variant of OverallSignal with strict comparisons.
OverallSignalStrict(netScore) ==
    IF netScore > 5 THEN "strong_accumulation"
    ELSE IF netScore > 2 THEN "accumulation"
    ELSE IF netScore < -5 THEN "strong_distribution"
    ELSE IF netScore < -2 THEN "distribution"
    ELSE "neutral"

\* Calculate final signal: the if / else-if chain on netScore
OverallSignal(netScore) ==
    IF netScore >= 5 THEN "strong_accumulation"
    ELSE IF netScore >= 2 THEN "accumulation"
    ELSE IF netScore <= -5 THEN "strong_distribution"
    ELSE IF netScore <= -2 THEN "distribution"
    ELSE "neutral"

OverallLabel(netScore) ==
    IF netScore >= 5 THEN "ACCUMULATION FORTE"
    ELSE IF netScore >= 2 THEN "ZONE D'ACCUMULATION"
    ELSE IF netScore <= -5 THEN "DISTRIBUTION FORTE"
    ELSE IF netScore <= -2 THEN "ZONE DE PRUDENCE"
    ELSE "PATIENCE"

\* Variant of Slice5 keeping the last five entries: signals.slice(-5).
SliceLast5(s) == SubSeq(s, Max(1, Len(s) - 4), Len(s))

\* signals.slice(0, 5)
Slice5(s) == SubSeq(s, 1, Min(5, Len(s)))

\* The object generateAnalysis returns, from its locals.
AnalysisResult(acc) ==
    LET netScore == NetScore(acc.bullScore, acc.bearScore)
    IN  [signal  |-> OverallSignal(netScore),
         label   |-> OverallLabel(netScore),
         score   |-> [bull |-> acc.bullScore, bear |-> acc.bearScore,
                      net |-> netScore],
         signals |-> Slice5(acc.signals)]

----------------------------------------------------------------------------
(* fetchHashrate *)

\* Math.max(...hashrates)
RECURSIVE SeqMax(_)
SeqMax(s) ==
    IF Len(s) = 1 THEN s[1] ELSE Max(s[1], SeqMax(Tail(s)))

\* Variant of HashrateTrend testing isDropping before isCrashing.
HashrateTrendDroppingFirst(change24h, change7d, changeFromPeak) ==
    LET isDropping == change24h < -20 /\ changeFromPeak < -50
        isCrashing == changeFromPeak < -150
        isRising   == change24h > 20 /\ change7d > 50
    IN  IF isDropping THEN [trend |-> "dropping", signal |-> "neutral"]
        ELSE IF isCrashing THEN [trend |-> "crashing", signal |-> "bearish"]
        ELSE IF isRising THEN [trend |-> "rising", signal |-> "bullish"]
        ELSE IF change7d > 0 /\ change24h >= -20
        THEN [trend |-> "stable", signal |-> "neutral"]
        ELSE [trend |-> "falling", signal |-> "neutral"]

\* Variant of HashrateTrend whose dropping branch sets the signal bearish.
HashrateTrendDroppingBearish(change24h, change7d, changeFromPeak) ==
    LET isDropping == change24h < -20 /\ changeFromPeak < -50
        isCrashing == changeFromPeak < -150
        isRising   == change24h > 20 /\ change7d > 50
    IN  IF isCrashing THEN [trend |-> "crashing", signal |-> "bearish"]
        ELSE IF isDropping THEN [trend |-> "dropping", signal |-> "bearish"]
        ELSE IF isRising THEN [trend |-> "rising", signal |-> "bullish"]
        ELSE IF change7d > 0 /\ change24h >= -20
        THEN [trend |-> "stable", signal |-> "neutral"]
        ELSE [trend |-> "falling", signal |-> "neutral"]

\* Determine trend - the if / else-if chain on the parsed changes (tenths of
\* a percent), each branch setting trend and signal together.
HashrateTrend(change24h, change7d, changeFromPeak) ==
    LET isDropping == change24h < -20 /\ changeFromPeak < -50
        isCrashing == changeFromPeak < -150
        isRising   == change24h > 20 /\ change7d > 50
    IN  IF isCrashing THEN [trend |-> "crashing", signal |-> "bearish"]
        ELSE IF isDropping THEN [trend |-> "dropping", signal |-> "neutral"]
        ELSE IF isRising THEN [trend |-> "rising", signal |-> "bullish"]
        ELSE IF change7d > 0 /\ change24h >= -20
        THEN [trend |-> "stable", signal |-> "neutral"]
        ELSE [trend |-> "falling", signal |-> "neutral"]

\* Fallback record returned when the fetch fails or the payload has no
\* hashrates (current: '1000' is kept as the number 1000).
HashrateFallback ==
    [current |-> 1000, unit |-> "EH/s", trend |-> "unknown", signal |-> "neutral"]

\* payload: Null (fetch rejected, or a body without a hashrates array) or
\* [hashrates |-> the avgHashrate values in EH/s, oldest first].  The
\* interpretation and priceImpact texts are display strings fixed by the
\* trend and are left out.
fetchHashrate(payload) ==
    IF payload # Null /\ Len(payload.hashrates) > 0
    THEN LET hashrates == payload.hashrates
             current   == hashrates[Len(hashrates)]
             yesterday == IF Len(hashrates) >= 2
                          THEN hashrates[Len(hashrates) - 1]
                          ELSE current
             weekAgo   == hashrates[1]
             peak      == SeqMax(hashrates)
             changeFromPeak == PctTenths(current - peak, peak)
             change7d       == PctTenths(current - weekAgo, weekAgo)
             change24h      == PctTenths(current - yesterday, yesterday)
             t == HashrateTrend(change24h, change7d, changeFromPeak)
         IN  [current |-> current, unit |-> "EH/s", trend |-> t.trend,
              peak |-> peak, change24h |-> change24h, change7d |-> change7d,
              changeFromPeak |-> changeFromPeak, signal |-> t.signal]
    ELSE HashrateFallback

----------------------------------------------------------------------------
(* fetchLiquidations *)

Hour == 60

\* Variant of LiquidationStep with o.time >= h1 for the 1h sums.
LiquidationStepInclusive(sums, o, h24, h1) ==
    IF o.time < h24 THEN sums
    ELSE IF o.side = "SELL"
    THEN [sums EXCEPT !.long24h = @ + o.val,
                      !.long1h  = IF o.time >= h1 THEN @ + o.val ELSE @]
    ELSE [sums EXCEPT !.short24h = @ + o.val,
                      !.short1h  = IF o.time >= h1 THEN @ + o.val ELSE @]

\* One step of data.forEach: the order o folded into the four sums.
LiquidationStep(sums, o, h24, h1) ==
    IF o.time < h24 THEN sums
    ELSE IF o.side = "SELL"
    THEN [sums EXCEPT !.long24h = @ + o.val,
                      !.long1h  = IF o.time > h1 THEN @ + o.val ELSE @]
    ELSE [sums EXCEPT !.short24h = @ + o.val,
                      !.short1h  = IF o.time > h1 THEN @ + o.val ELSE @]

\* let long24h = 0, short24h = 0, long1h = 0, short1h = 0; data.forEach(...)
RECURSIVE LiquidationSums(_, _, _, _)
LiquidationSums(orders, sums, h24, h1) ==
    IF orders = << >> THEN sums
    ELSE LiquidationSums(Tail(orders),
                         LiquidationStep(sums, Head(orders), h24, h1), h24, h1)

\* payload: Null (fetch rejected, or the body is not an array) or
\* [orders, now24, now1]: the raw order list and the two readings of
\* Date.now(), the first for h24 and the second for h1.
fetchLiquidations(payload) ==
    IF payload # Null
    THEN LET h24 == payload.now24 - 24 * Hour
             h1  == payload.now1 - Hour
             s   == LiquidationSums(payload.orders,
                        [long24h |-> 0, short24h |-> 0, long1h |-> 0, short1h |-> 0],
                        h24, h1)
             total24h == s.long24h + s.short24h
         IN  [h24 |-> [total |-> total24h, longs |-> s.long24h, shorts |-> s.short24h],
              h1  |-> [total |-> s.long1h + s.short1h, longs |-> s.long1h,
                       shorts |-> s.short1h],
              dominant  |-> IF s.long24h > s.short24h THEN "longs" ELSE "shorts",
              intensity |-> IF total24h > 2000 THEN "extreme"
                            ELSE IF total24h > 1000 THEN "high"
                            ELSE IF total24h > 500 THEN "moderate" ELSE "low",
              signal    |-> IF s.long24h > s.short24h * 2 THEN "longs_rekt"
                            ELSE IF s.short24h > s.long24h * 2 THEN "shorts_rekt"
                            ELSE "balanced"]
    ELSE Null

----------------------------------------------------------------------------
(* fetchCOTData, getCOTFallback, getETFFlows *)

\* long > short * 1.5 ? 'bullish' : short > long * 1.5 ? 'bearish' : 'neutral'
\* (for leveragedFunds the code tests bearish first).
DominanceSignal(long, short) ==
    IF 2 * long > 3 * short THEN "bullish"
    ELSE IF 2 * short > 3 * long THEN "bearish"
    ELSE "neutral"

LevFundsSignal(long, short) ==
    IF 2 * short > 3 * long THEN "bearish"
    ELSE IF 2 * long > 3 * short THEN "bullish"
    ELSE "neutral"

\* total > 0 ? parseFloat(((x / total) * 100).toFixed(1)) : 0
SharePct(x, total) == IF total > 0 THEN PctTenths(x, total) ELSE 0

getCOTFallback ==
    [asOf |-> "2026-02-10",
     categories |->
       [dealers        |-> [long |-> 5746, longPct |-> 273, short |-> 2470,
                            shortPct |-> 97, net |-> 3276, signal |-> "bullish"],
        assetManagers  |-> [long |-> 946, longPct |-> 45, short |-> 7476,
                            shortPct |-> 294, net |-> -6530, signal |-> "bearish"],
        leveragedFunds |-> [long |-> 972, longPct |-> 46, short |-> 697,
                            shortPct |-> 27, net |-> 275, signal |-> "neutral"],
        retail         |-> [long |-> 4372, longPct |-> 208, short |-> 13871,
                            shortPct |-> 546, net |-> -9499, signal |-> "bearish"]]]

\* payload: Null (fetch rejected, body not a string, or no Bitcoin CME line)
\* or the parsed integers of the Bitcoin line.
fetchCOTData(payload) ==
    IF payload = Null THEN getCOTFallback
    ELSE LET p == payload
             totalLong  == p.dealerLong + p.assetMgrLong + p.levFundsLong + p.otherLong
             totalShort == p.dealerShort + p.assetMgrShort + p.levFundsShort
                           + p.otherShort
         IN  [asOf |-> p.dateStr,
              openInterest |-> p.openInterest,
              categories |->
                [dealers |->
                   [long |-> p.dealerLong,
                    longPct |-> SharePct(p.dealerLong, totalLong),
                    short |-> p.dealerShort,
                    shortPct |-> SharePct(p.dealerShort, totalShort),
                    net |-> p.dealerLong - p.dealerShort,
                    signal |-> DominanceSignal(p.dealerLong, p.dealerShort)],
                 assetManagers |->
                   [long |-> p.assetMgrLong,
                    longPct |-> SharePct(p.assetMgrLong, totalLong),
                    short |-> p.assetMgrShort,
                    shortPct |-> SharePct(p.assetMgrShort, totalShort),
                    net |-> p.assetMgrLong - p.assetMgrShort,
                    signal |-> DominanceSignal(p.assetMgrLong, p.assetMgrShort)],
                 leveragedFunds |->
                   [long |-> p.levFundsLong,
                    longPct |-> SharePct(p.levFundsLong, totalLong),
                    short |-> p.levFundsShort,
                    shortPct |-> SharePct(p.levFundsShort, totalShort),
                    net |-> p.levFundsLong - p.levFundsShort,
                    signal |-> LevFundsSignal(p.levFundsLong, p.levFundsShort)],
                 retail |->
                   [long |-> p.otherLong, longPct |-> 0,
                    short |-> p.otherShort, shortPct |-> 0,
                    net |-> p.otherLong - p.otherShort,
                    signal |-> "neutral"]]]

getETFFlows ==
    [date |-> "2026-02-10", daily |-> 145, weekly |-> -580, total |-> 40200,
     trend |-> "positive_daily"]

----------------------------------------------------------------------------
(* Inputs *)

\* Longest hashrate series and longest liquidation order list drawn.
MaxSeries == 4

MaxOrders == 2

\* The reading of Date.now(), in minutes, at the start of fetchLiquidations.
Now == 2000

\* All sequences over S of length 0..n.
SeqsUpTo(S, n) == UNION {[1..k -> S] : k \in 0..n}

\* avgHashrate values (EH/s) placing the three changes on, and on either
\* side of, the thresholds -15, -5, -2, 0, 2 and 5 percent.  No quotient of
\* two of them falls on a rounding tie of toFixed(1).
HashrateValues == {80, 85, 95, 98, 99, 100, 102, 105}

\* Two series giving (change24h, changeFromPeak) = (-3.0, -20.0) and
\* (change24h, change7d) = (3.0, 6.0).
HashrateExamples == {<<485, 400, 388>>, <<486, 500, 515>>}

HashratePayloads ==
    {Null} \cup [hashrates : SeqsUpTo(HashrateValues, MaxSeries)
                             \cup HashrateExamples]

\* Order times around the two window edges: 24h01, 24h, 2h, 1h, 30min ago.
OrderTimes == {Now - 24 * Hour - 1, Now - 24 * Hour, Now - 2 * Hour,
               Now - Hour, Now - 30}

Orders == [time : OrderTimes, side : {"SELL", "BUY"}, val : {1, 3}]

\* The second reading of Date.now() is the first or one unit later.
LiquidationPayloads ==
    {Null} \cup [orders : SeqsUpTo(Orders, MaxOrders), now24 : {Now},
                 now1 : {Now, Now + 1}]

\* The indicator values generateAnalysis is run on.  Each is null or a value
\* its source produces.
FearGreedInputs == {Null} \cup {[current |-> v] : v \in {12, 25, 50, 65, 80}}

COTPart(assetMgrLong, levFundsShort, dealerShort) ==
    [dateStr |-> "2026-02-10", openInterest |-> 200,
     dealerLong |-> 10, dealerShort |-> dealerShort,
     assetMgrLong |-> assetMgrLong, assetMgrShort |-> 20,
     levFundsLong |-> 30, levFundsShort |-> levFundsShort,
     otherLong |-> 5, otherShort |-> 5]

\* Hedge funds 65.0% short with institutions neutral, then bullish; hedge
\* funds exactly 60.0% short with institutions bullish.
COTPayloads == {Null, COTPart(20, 65, 10), COTPart(40, 65, 10), COTPart(40, 60, 15)}

COTInputs == {Null} \cup {fetchCOTData(p) : p \in COTPayloads}

ETFInputs ==
    {Null, getETFFlows} \cup
    {[daily |-> 80, weekly |-> 0], [daily |-> -101, weekly |-> 0],
     [daily |-> 50, weekly |-> -301]}

LongShortInputs ==
    {Null} \cup [signal : {"squeeze_possible", "dump_possible", "neutral"},
                 takerBuySellRatio : {94, 100, 106}]

FundingInputs ==
    {Null} \cup [signal : {"correction_likely", "bounce_likely", "normal"}]

LiquidationInputs ==
    {fetchLiquidations(p) : p \in
        {Null,
         [orders |-> << >>, now24 |-> Now, now1 |-> Now],
         [orders |-> <<[time |-> Now - 30, side |-> "SELL", val |-> 3],
                       [time |-> Now - 30, side |-> "BUY", val |-> 1]>>,
          now24 |-> Now, now1 |-> Now],
         [orders |-> <<[time |-> Now - 30, side |-> "SELL", val |-> 1],
                       [time |-> Now - 30, side |-> "BUY", val |-> 3]>>,
          now24 |-> Now, now1 |-> Now]}}

\* null, the fallback, and one series per trend: crashing, dropping, rising,
\* stable, falling.
HashrateInputs ==
    {Null} \cup {fetchHashrate(p) : p \in
        {Null} \cup [hashrates : {<<100, 80>>, <<105, 98>>, <<95, 100, 105>>,
                                  <<98, 100, 99>>, <<100, 99>>}]}

\* const data = { fearGreed, longShort, openInterest, funding, liquidations,
\*                hashrate, priceData, cot, etf }
NoData ==
    [fearGreed |-> Null, longShort |-> Null, openInterest |-> Null,
     funding |-> Null, liquidations |-> Null, hashrate |-> Null,
     priceData |-> Null, cot |-> Null, etf |-> Null]

DataInputs ==
    [fearGreed : FearGreedInputs, longShort : LongShortInputs,
     openInterest : {Null}, funding : FundingInputs,
     liquidations : LiquidationInputs, hashrate : HashrateInputs,
     priceData : {Null}, cot : COTInputs, etf : ETFInputs]

\* Every Fear & Greed value, against three settings of the other indicators.
FearGreedSweep ==
    {[d EXCEPT !.fearGreed = [current |-> v]] :
        v \in 0..100,
        d \in {NoData,
               [NoData EXCEPT !.cot = fetchCOTData(COTPart(40, 65, 10)),
                              !.etf = getETFFlows,
                              !.hashrate = fetchHashrate([hashrates |-> <<100, 80>>])],
               [NoData EXCEPT !.longShort = [signal |-> "dump_possible",
                                             takerBuySellRatio |-> 106],
                              !.funding = [signal |-> "bounce_likely"],
                              !.hashrate = HashrateFallback]}}

\* priceData records as fetchPriceData returns them: supports below the
\* price and resistances above it, nearest first, up to three of each.
PriceInputs ==
    {[current |-> 67000, supports |-> <<66500, 65000, 64000>>,
      resistances |-> <<68000, 69500>>],
     [current |-> 67000, supports |-> <<66000>>, resistances |-> << >>]}

\* The settings of longShort, funding and liquidations the plan is run on:
\* all missing, all bearish, all bullish.
FlowSettings ==
    {NoData,
     [NoData EXCEPT !.longShort = [signal |-> "dump_possible",
                                   takerBuySellRatio |-> 94],
                    !.funding = [signal |-> "correction_likely"]],
     [NoData EXCEPT !.longShort = [signal |-> "squeeze_possible",
                                   takerBuySellRatio |-> 106],
                    !.funding = [signal |-> "bounce_likely"]]}

\* The data objects generateTradingPlan is run on: every Fear & Greed value
\* and a missing one, with and without price data.
PlanInputs ==
    {[f EXCEPT !.fearGreed = fg, !.priceData = price, !.cot = cot,
               !.etf = etf, !.hashrate = hashrate] :
        f \in FlowSettings,
        fg \in {Null} \cup {[current |-> v] : v \in 0..100},
        price \in {Null} \cup PriceInputs,
        cot \in {Null, fetchCOTData(COTPart(40, 65, 10)),
                 fetchCOTData(COTPart(40, 60, 15))},
        etf \in {Null, getETFFlows, [daily |-> 80, weekly |-> 0],
                 [daily |-> 120, weekly |-> 0],
                 [daily |-> -101, weekly |-> -301]},
        hashrate \in {HashrateFallback,
                      fetchHashrate([hashrates |-> <<105, 98>>]),
                      fetchHashrate([hashrates |-> <<100, 80>>])}}

----------------------------------------------------------------------------
(* fetchLongShort.  The ratios of a payload are in ten-thousandths (Binance
   sends four decimals); the record keeps percentages in tenths and ratios
   in hundredths, as its toFixed(1) and toFixed(2) strings read. *)

\* x.toFixed(2) of a ratio given in ten-thousandths, in hundredths.
Hundredths(x) == (x + 50) \div 100

\* Variant of LongShortSignal with >= 55 in both tests.
LongShortSignalInclusive(longPct, shortPct) ==
    IF shortPct >= 550 THEN "squeeze_possible"
    ELSE IF longPct >= 550 THEN "dump_possible"
    ELSE "neutral"

\* parseFloat(shortPct) > 55 ? 'squeeze_possible'
\*     : parseFloat(longPct) > 55 ? 'dump_possible' : 'neutral'
LongShortSignal(longPct, shortPct) ==
    IF shortPct > 550 THEN "squeeze_possible"
    ELSE IF longPct > 550 THEN "dump_possible"
    ELSE "neutral"

\* payload: Null (a request rejected, topTraders is no array or is empty,
\* or reading the payload threw) or [latest, h4Ago, accounts, taker]:
\* latest is topTraders[0], h4Ago the longShortRatio of the oldest entry
\* read, accounts is Null when the body is no array, taker is Null when
\* takerRatio is no array or is empty.
fetchLongShort(payload) ==
    IF payload = Null THEN Null
    ELSE LET latest == payload.latest
             longPct == PctTenths(latest.longAccount, 10000)
             shortPct == PctTenths(latest.shortAccount, 10000)
             ratio == latest.longShortRatio
             trend == IF ratio > payload.h4Ago THEN "more_long"
                      ELSE IF ratio < payload.h4Ago THEN "more_short"
                      ELSE "stable"
             takerBuySell == IF payload.taker # Null
                             THEN payload.taker.buySellRatio ELSE 10000
         IN  [topTraders |-> [long |-> longPct, short |-> shortPct,
                              ratio |-> Hundredths(ratio)],
              accounts |-> IF payload.accounts # Null
                           THEN [long |-> PctTenths(payload.accounts.longAccount,
                                                    10000),
                                 short |-> PctTenths(payload.accounts.shortAccount,
                                                     10000)]
                           ELSE Null,
              takerBuySellRatio |-> Hundredths(takerBuySell),
              trend |-> trend,
              signal |-> LongShortSignal(longPct, shortPct)]

\* The top-trader positions: the short share on each side of 55% and of
\* 45%, none of them a rounding tie of toFixed(1).
TopTraderPositions ==
    {[longAccount |-> 10000 - short, shortAccount |-> short,
      longShortRatio |-> ratio] :
        short \in {4400, 4496, 4500, 4504, 5000, 5496, 5500, 5504, 5600},
        ratio \in {9000, 12000}}

\* The taker buy/sell ratios: on each side of 0.95 and 1.05 before and
\* after toFixed(2), and a missing series.
TakerPayloads ==
    {Null} \cup {[buySellRatio |-> x] :
                    x \in {9000, 9449, 9451, 9500, 10000, 10500, 10549, 10551,
                           11000}}

LongShortPayloads ==
    {Null} \cup
    [latest : TopTraderPositions, h4Ago : {10000}, taker : TakerPayloads,
     accounts : {Null, [longAccount |-> 6000, shortAccount |-> 4000]}]

----------------------------------------------------------------------------
(* generateTradingPlan.  Accented words of the source are written without
   accents ("Modere" for the source's strength of a moderate bias); a
   formatted price is the number it formats, a factor text is its fixed
   part and the value it embeds. *)

\* data.fearGreed?.current || 50: null, a missing index and 0 all read 50.
FearGreedOrDefault(d) ==
    IF d.fearGreed # Null /\ d.fearGreed.current # 0
    THEN d.fearGreed.current ELSE 50

\* The bias chain with the strong thresholds moved to 4 and -4.
BiasThreshold4(netScore) ==
    IF netScore >= 4 THEN [direction |-> "ACHAT", strength |-> "Fort"]
    ELSE IF netScore >= 2 THEN [direction |-> "ACHAT", strength |-> "Modere"]
    ELSE IF netScore <= -4 THEN [direction |-> "VENTE", strength |-> "Fort"]
    ELSE IF netScore <= -2
         THEN [direction |-> "PRUDENCE", strength |-> "Modere"]
    ELSE [direction |-> "NEUTRE", strength |-> "Attente"]

\* The bias, and its strength, from the net score.
Bias(netScore) ==
    IF netScore >= 5 THEN [direction |-> "ACHAT", strength |-> "Fort"]
    ELSE IF netScore >= 2 THEN [direction |-> "ACHAT", strength |-> "Modere"]
    ELSE IF netScore <= -5 THEN [direction |-> "VENTE", strength |-> "Fort"]
    ELSE IF netScore <= -2
         THEN [direction |-> "PRUDENCE", strength |-> "Modere"]
    ELSE [direction |-> "NEUTRE", strength |-> "Attente"]

\* list[i] ? list[i] : null, for the 0-based index i of the source.
LevelAt(list, i) ==
    IF i + 1 <= Len(list) /\ list[i + 1] # 0
    THEN [price |-> list[i + 1]] ELSE Null

\* The entry zone: supports[0] to supports[0] + 1500.
EntryZone(price) ==
    IF LevelAt(price.supports, 0) # Null
    THEN [low |-> price.supports[1], high |-> price.supports[1] + 1500]
    ELSE Null

\* The horizon from the Fear & Greed value fg.
Horizon(fg) ==
    IF fg <= 20 \/ fg >= 80
    THEN [timeframe |-> "24-72h",
          detail |-> "Extreme Fear/Greed = retournement rapide possible"]
    ELSE [timeframe |-> "1-2 semaines",
          detail |-> "Conditions normales, patience requise"]

\* factors.length ? 'CONFIRMANT' : 'PRINCIPAL'
ConfirmingLevelAlways(factors) == "CONFIRMANT"

ConfirmingLevel(factors) ==
    IF Len(factors) > 0 THEN "CONFIRMANT" ELSE "PRINCIPAL"

\* The Fear & Greed factor.
FearGreedFactor(factors, fg) ==
    IF fg <= 20
    THEN Append(factors, [level |-> "PRINCIPAL",
                          text |-> "Fear & Greed extreme", value |-> fg])
    ELSE IF fg >= 80
    THEN Append(factors, [level |-> "PRINCIPAL",
                          text |-> "Greed extreme", value |-> fg])
    ELSE factors

\* The hedge funds factor.
HedgeFundsFactor(factors, d) ==
    IF d.cot # Null /\ d.cot.categories.leveragedFunds.shortPct > 600
    THEN Append(factors,
                [level |-> ConfirmingLevel(factors),
                 text |-> "Hedge Funds short - squeeze possible",
                 value |-> d.cot.categories.leveragedFunds.shortPct])
    ELSE factors

\* The ETF factor with the daily threshold of the aggregator, 50.
ETFFactorDaily50(factors, d) ==
    IF d.etf # Null /\ d.etf.weekly < -300
    THEN Append(factors, [level |-> "ATTENTION",
                          text |-> "ETF outflows semaine",
                          value |-> d.etf.weekly])
    ELSE IF d.etf # Null /\ d.etf.daily > 50
    THEN Append(factors, [level |-> ConfirmingLevel(factors),
                          text |-> "ETF inflows", value |-> d.etf.daily])
    ELSE factors

\* The ETF factor: the weekly outflow, else the daily inflow.
ETFFactor(factors, d) ==
    IF d.etf # Null /\ d.etf.weekly < -300
    THEN Append(factors, [level |-> "ATTENTION",
                          text |-> "ETF outflows semaine",
                          value |-> d.etf.weekly])
    ELSE IF d.etf # Null /\ d.etf.daily > 100
    THEN Append(factors, [level |-> ConfirmingLevel(factors),
                          text |-> "ETF inflows", value |-> d.etf.daily])
    ELSE factors

\* The hashrate factor.
HashrateFactor(factors, d) ==
    IF d.hashrate # Null /\ d.hashrate.trend = "dropping"
    THEN Append(factors, [level |-> "SECONDAIRE",
                          text |-> "Hashrate en baisse",
                          value |-> d.hashrate.changeFromPeak])
    ELSE factors

\* The list factors before it is cut.
Factors(d) ==
    HashrateFactor(
      ETFFactor(
        HedgeFundsFactor(
          FearGreedFactor(<< >>, FearGreedOrDefault(d)), d), d), d)

\* factors.slice(0, 3)
Slice3(s) == SubSeq(s, 1, Min(3, Len(s)))

\* The recommendation from the bias.
Recommendation(bias) ==
    IF bias.direction = "ACHAT" /\ bias.strength = "Fort"
    THEN "Accumulation progressive"
    ELSE IF bias.direction = "ACHAT" THEN "Observer pour entree"
    ELSE IF bias.direction = "VENTE" THEN "Reduire exposition"
    ELSE "Attendre"

\* riskPercent
RiskPercent(biasStrength) == IF biasStrength = "Fort" THEN "3-5%" ELSE "1-2%"

\* generateTradingPlan(data, analysis)
generateTradingPlan(d, a) ==
    IF d.priceData = Null THEN Null
    ELSE LET price == d.priceData
             bias == Bias(a.score.net)
         IN  [bias |-> bias,
              horizon |-> Horizon(FearGreedOrDefault(d)),
              levels |-> [currentPrice |-> price.current,
                          entryZone |-> EntryZone(price),
                          invalidation |-> LevelAt(price.supports, 1),
                          target1 |-> LevelAt(price.resistances, 0),
                          target2 |-> LevelAt(price.resistances, 1)],
              factors |-> Slice3(Factors(d)),
              action |-> Recommendation(bias),
              risk |-> [maxPosition |-> RiskPercent(bias.strength)]]

----------------------------------------------------------------------------
(* generateStory and generateFallbackStory.  A story is a record: the
   template story lists its sentences, the LLM story carries the text of
   the service. *)

\* The opening sentence of the template, chosen by fg.
Opening(fg) ==
    IF fg <= 20 THEN "panique totale"
    ELSE IF fg <= 40 THEN "nerveux"
    ELSE IF fg >= 75 THEN "euphorie"
    ELSE "hesitation"

\* The closing sentence of the template: analysis.signal.includes(...).
Closing(signal) ==
    IF signal \in {"accumulation", "strong_accumulation"}
    THEN "opportunites"
    ELSE IF signal \in {"distribution", "strong_distribution"}
    THEN "prudence"
    ELSE ""

\* generateFallbackStory(data, analysis)
generateFallbackStory(d, a) ==
    LET fg == FearGreedOrDefault(d)
        hfShort == IF d.cot # Null
                      /\ d.cot.categories.leveragedFunds.shortPct # 0
                   THEN d.cot.categories.leveragedFunds.shortPct ELSE 500
        etf == IF d.etf # Null THEN d.etf.daily ELSE 0
    IN  [source |-> "template",
         opening |-> Opening(fg),
         fearGreed |-> fg,
         hedgeFunds |-> IF hfShort > 600 THEN hfShort ELSE 0,
         etf |-> IF etf > 50 THEN [flow |-> "in", amount |-> etf]
                 ELSE IF etf < -50 THEN [flow |-> "out", amount |-> Abs(etf)]
                 ELSE [flow |-> "", amount |-> 0],
         closing |-> Closing(a.signal)]

\* What the LLM service does with a request: "ok" answers a completion,
\* "no_choices" a JSON body without choices, "non_json" a body that is not
\* JSON, "network_error" fails the request, "silent" accepts the request
\* and never sends a response.
GroqBehaviours == {"ok", "no_choices", "non_json", "network_error", "silent"}

\* The content of the first choice of a completion: a text with pad
\* blanks before and after it.
Completions == [pad : {0, 1}, text : {"recit"}]

\* content.trim()
Trim(content) == [content EXCEPT !.pad = 0]

----------------------------------------------------------------------------
(* main of update-data.js: the two fan-outs.  A fetcher promise is a record
   [state, outcome, value]: outcome is what the HTTP requests of the
   fetcher did, value the kind of value the promise was fulfilled with. *)

\* The functions declared in update-data.js.
ModuleFunctions ==
    {"fetch", "fetchPriceData", "fetchHashrate", "fetchFearGreed",
     "fetchLongShort", "fetchOpenInterest", "fetchFunding",
     "fetchLiquidations", "fetchCOTData", "getCOTFallback", "getNextFriday",
     "getETFFlows", "generateAnalysis", "generateStory",
     "generateFallbackStory", "generateTradingPlan", "main"}

\* The first array literal with fetchCOTData() added to it.
FirstBatchWithCOT ==
    {"fetchFearGreed", "fetchLongShort", "fetchOpenInterest", "fetchFunding",
     "fetchLiquidations", "fetchHashrate", "fetchPriceData", "fetchCOTData"}

\* The calls of the first array literal given to Promise.all.
FirstBatch ==
    {"fetchFearGreed", "fetchLongShort", "fetchOpenInterest", "fetchFunding",
     "fetchLiquidations", "fetchHashrate", "fetchPriceData"}

\* The calls of the second array literal, in order.
SecondBatch == <<"fetchCOTData", "fetchETFFlows">>

\* Every name main calls in the two literals.
Calls == FirstBatch \cup {SecondBatch[i] : i \in 1..Len(SecondBatch)}

NotCalled == [state |-> "not_called", outcome |-> "none", value |-> "none"]

Pending == [state |-> "pending", outcome |-> "none", value |-> "none"]

\* What the HTTP requests of a fetcher do: all answer as expected; one fails
\* (req 'error'); one times out (req.setTimeout, 15 s); one answers a body
\* of an unexpected shape (fetch resolves it, parsed or as text).
HttpOutcomes == {"success", "network_error", "timeout", "malformed"}

\* The settlements of a fetcher whose first try/catch was left out: the
\* rejection of fetch reaches the caller.
FetcherSettlesUncaught(f, outcome) ==
    IF outcome = "success"
    THEN {[state |-> "fulfilled", outcome |-> outcome, value |-> "record"]}
    ELSE IF f = "fetchFearGreed" /\ outcome \in {"network_error", "timeout"}
    THEN {[state |-> "rejected", outcome |-> outcome, value |-> "none"]}
    ELSE IF f \in {"fetchHashrate", "fetchCOTData"}
    THEN {[state |-> "fulfilled", outcome |-> outcome, value |-> "fallback"]}
    ELSE {[state |-> "fulfilled", outcome |-> outcome, value |-> "null"]}

\* The settlements of the promise of fetcher f on an outcome: each fetcher
\* body is one try/catch.  A rejected fetch is caught; a body of an
\* unexpected shape fails the guard or throws inside the try; fetchPriceData
\* has no guard and, when only the ticker is unexpected, returns a record
\* of NaN.
FetcherSettles(f, outcome) ==
    IF outcome = "success"
    THEN {[state |-> "fulfilled", outcome |-> outcome, value |-> "record"]}
    ELSE IF f \in {"fetchHashrate", "fetchCOTData"}
    THEN {[state |-> "fulfilled", outcome |-> outcome, value |-> "fallback"]}
    ELSE IF f = "fetchPriceData" /\ outcome = "malformed"
    THEN {[state |-> "fulfilled", outcome |-> outcome, value |-> v] :
             v \in {"null", "record"}}
    ELSE {[state |-> "fulfilled", outcome |-> outcome, value |-> "null"]}

\* The calls of the literal that are made before it throws, left to right:
\* a name that is not declared throws a ReferenceError.
RECURSIVE CalledBeforeThrow(_)
CalledBeforeThrow(batch) ==
    IF batch = << >> \/ Head(batch) \notin ModuleFunctions THEN {}
    ELSE {Head(batch)} \cup CalledBeforeThrow(Tail(batch))

\* Whether evaluating the literal throws.
Throws(batch) == \E i \in 1..Len(batch) : batch[i] \notin ModuleFunctions

----------------------------------------------------------------------------
(* The news engines and the ETF scraper.  A news item is a record; the
   texts of an item (titles, summary, link) are left out. *)

MaxNews == 2

\* The items parsed from the feeds that answered, newest first.
RawNews(n) == [i \in 1..n |-> [id |-> i]]

\* What a file holds: "absent", "invalid" (not JSON), "valid" (a complete
\* document), and while update-data.js writes it, "empty" (opened with
\* truncation), "partial" (a prefix of the new document, which never parses:
\* the closing brace comes last) and "new" (the complete new document).
Parseable == {"valid", "new"}

getMarketContextUnparsed(file) ==
    IF file = "absent" THEN Null
    ELSE [fearGreed |-> 50, hedgeFundsShort |-> 27, signal |-> "PATIENCE"]

\* getMarketContext(): the indicators of data.json, null when the file is
\* absent or cannot be parsed.
getMarketContext(file) ==
    IF file = "valid"
    THEN [fearGreed |-> 50, hedgeFundsShort |-> 27, signal |-> "PATIENCE"]
    ELSE IF file = "new"
    THEN [fearGreed |-> 20, hedgeFundsShort |-> 31, signal |-> "PRUDENCE"]
    ELSE Null

\* fs.readFileSync runs only when fs.existsSync found the file.
ReadOf(name, file) ==
    IF file = "absent" THEN {} ELSE {[file |-> name, content |-> file]}

\* part_000 analyzeNews: the item returned without an analysis.
Unanalyzed(item, priceEffect) ==
    [id |-> item.id, impact |-> "neutre", priceEffect |-> priceEffect,
     importance |-> 3]

\* The analyses the LLM answers for an item.
Analyses ==
    {[impact |-> "bullish", importance |-> 5],
     [impact |-> "bearish", importance |-> 2]}

\* part_000 analyzeNews: the item merged with its analysis a.
Analyzed(item, a) ==
    [id |-> item.id, impact |-> a.impact, priceEffect |-> "effet",
     importance |-> a.importance]

\* analyzed.filter(n => n.importance >= 3).slice(0, 5)
Important(s) ==
    LET Keep(n) == n.importance >= 3
        kept == SelectSeq(s, Keep)
    IN  SubSeq(kept, 1, Min(5, Len(kept)))

\* news.filter(n => n.importance >= 4).slice(0, 3)
TopNews(s) ==
    LET Keep(n) == n.importance >= 4
        kept == SelectSeq(s, Keep)
    IN  SubSeq(kept, 1, Min(3, Len(kept)))

\* update-news.js: the item saved without an analysis.
LegacyFallback(item) == [id |-> item.id, impact |-> "neutre", relevance |-> 3]

\* update-news.js: the item enriched with its analysis a.
LegacyEnriched(item, a) ==
    [id |-> item.id, impact |-> a.impact, relevance |-> a.importance]

\* enrichedNews.filter(n => n.relevance >= 3).slice(0, 5)
LegacyFiltered(s) ==
    LET Keep(n) == n.relevance >= 3
        kept == SelectSeq(s, Keep)
    IN  SubSeq(kept, 1, Min(5, Len(kept)))

----------------------------------------------------------------------------
(* The state machine *)

Idle ==
    /\ pc = "start"
    /\ signals = << >>
    /\ bullScore = 0
    /\ bearScore = 0
    /\ analysis = Null
    /\ record = Null
    /\ tradingPlan = Null
    /\ groq = "none"
    /\ requests = 0
    /\ story = Null
    /\ fetches = [f \in Calls |-> NotCalled]
    /\ error = "none"
    /\ exitCode = -1
    /\ news = << >>
    /\ context = Null
    /\ narrative = Null
    /\ written = Null
    /\ reads = {}

\* A function run alone, outside the process of a script.
NoProcess ==
    script = "none" /\ disk = "ok" /\ inputFile = "absent" /\ writer = "none"

\* generateAnalysis(data)
GenerateAnalysis ==
    /\ pc = "start"
    /\ LET acc == RunRules(data)
       IN  /\ signals' = acc.signals
           /\ bullScore' = acc.bullScore
           /\ bearScore' = acc.bearScore
           /\ analysis' = AnalysisResult(acc)
    /\ pc' = "returned"
    /\ UNCHANGED <<raw, data, record>>
    /\ UNCHANGED afterAnalysis

\* fetchHashrate() on the payload raw
FetchHashrate ==
    /\ pc = "start"
    /\ record' = fetchHashrate(raw)
    /\ pc' = "returned"
    /\ UNCHANGED <<raw, data, signals, bullScore, bearScore, analysis>>
    /\ UNCHANGED afterAnalysis

\* fetchLongShort() on the payload raw
FetchLongShort ==
    /\ pc = "start"
    /\ record' = fetchLongShort(raw)
    /\ pc' = "returned"
    /\ UNCHANGED <<raw, data, signals, bullScore, bearScore, analysis>>
    /\ UNCHANGED afterAnalysis

\* fetchLiquidations() on the payload raw
FetchLiquidations ==
    /\ pc = "start"
    /\ record' = fetchLiquidations(raw)
    /\ pc' = "returned"
    /\ UNCHANGED <<raw, data, signals, bullScore, bearScore, analysis>>
    /\ UNCHANGED afterAnalysis

\* generateAnalysis over the indicator sets
Init == Idle /\ raw = Null /\ data \in DataInputs /\ NoProcess /\ apiKey = FALSE

Next == GenerateAnalysis

Spec == Init /\ [][Next]_vars

\* generateAnalysis over every Fear & Greed value
InitFearGreed == Idle /\ raw = Null /\ data \in FearGreedSweep /\ NoProcess /\ apiKey = FALSE

SpecFearGreed == InitFearGreed /\ [][Next]_vars

\* fetchHashrate over the hashrate payloads
InitHashrate == Idle /\ raw \in HashratePayloads /\ data = NoData /\ NoProcess /\ apiKey = FALSE

NextHashrate == FetchHashrate

SpecHashrate == InitHashrate /\ [][NextHashrate]_vars

\* fetchLiquidations over the order lists
InitLiquidations == Idle /\ raw \in LiquidationPayloads /\ data = NoData /\ NoProcess /\ apiKey = FALSE

NextLiquidations == FetchLiquidations

SpecLiquidations == InitLiquidations /\ [][NextLiquidations]_vars

\* The positions of a category in a report line: long and short on each
\* side of the 1.5 ratio, on it, and both 0 (a field parseInt cannot read).
PositionPairs ==
    {[long |-> 30, short |-> 20], [long |-> 31, short |-> 20],
     [long |-> 20, short |-> 31], [long |-> 0, short |-> 0]}

\* The parsed Bitcoin CME lines fetchCOTData is run on, and a report
\* without such a line.
COTReportLines ==
    {Null} \cup
    {[dateStr |-> "2026-02-10", openInterest |-> 200,
      dealerLong |-> dl.long, dealerShort |-> dl.short,
      assetMgrLong |-> am.long, assetMgrShort |-> am.short,
      levFundsLong |-> lf.long, levFundsShort |-> lf.short,
      otherLong |-> ot.long, otherShort |-> ot.short] :
        dl \in PositionPairs, am \in PositionPairs, lf \in PositionPairs,
        ot \in PositionPairs}

\* fetchCOTData() on the report raw
FetchCOTData ==
    /\ pc = "start"
    /\ record' = fetchCOTData(raw)
    /\ pc' = "returned"
    /\ UNCHANGED <<raw, data, signals, bullScore, bearScore, analysis>>
    /\ UNCHANGED afterAnalysis

\* fetchCOTData over the report lines
InitCOT ==
    /\ Idle /\ NoProcess /\ apiKey = FALSE
    /\ raw \in COTReportLines
    /\ data = NoData

NextCOT == FetchCOTData

SpecCOT == InitCOT /\ [][NextCOT]_vars

\* fetchLongShort over the payloads, and generateAnalysis on the data
\* object whose longShort is its result
InitLongShort ==
    /\ Idle /\ NoProcess /\ apiKey = FALSE
    /\ raw \in LongShortPayloads
    /\ data = [NoData EXCEPT !.longShort = fetchLongShort(raw)]

NextLongShort == FetchLongShort \/ GenerateAnalysis

SpecLongShort == InitLongShort /\ [][NextLongShort]_vars

\* fetchHashrate over the payloads, and generateAnalysis on a data object
\* whose hashrate is its result, alone or beside other indicators
InitHashrateAggregate ==
    /\ Idle /\ NoProcess /\ apiKey = FALSE
    /\ raw \in HashratePayloads
    /\ \E d \in {NoData,
                  [NoData EXCEPT !.fearGreed = [current |-> 10],
                                 !.etf = getETFFlows],
                  [NoData EXCEPT !.fearGreed = [current |-> 90],
                                 !.cot = getCOTFallback]} :
          data = [d EXCEPT !.hashrate = fetchHashrate(raw)]

NextHashrateAggregate == FetchHashrate \/ GenerateAnalysis

SpecHashrateAggregate == InitHashrateAggregate /\ [][NextHashrateAggregate]_vars

\* const tradingPlan = generateTradingPlan(data, analysis)
GenerateTradingPlan ==
    /\ pc = "returned"
    /\ analysis # Null
    /\ tradingPlan' = generateTradingPlan(data, analysis)
    /\ pc' = "planned"
    /\ UNCHANGED <<raw, data, signals, bullScore, bearScore, analysis, record>>
    /\ UNCHANGED storyVars
    /\ UNCHANGED procVars

\* generateAnalysis, then generateTradingPlan, as main calls them
InitPlan == Idle /\ raw = Null /\ data \in PlanInputs /\ NoProcess /\ apiKey = FALSE

NextPlan == GenerateAnalysis \/ GenerateTradingPlan

SpecPlan == InitPlan /\ [][NextPlan]_vars

\* generateStory without GROQ_API_KEY: the template, and no request.
StoryWithoutKey ==
    /\ pc = "planned"
    /\ ~apiKey
    /\ story' = generateFallbackStory(data, analysis)
    /\ pc' = "story_returned"
    /\ UNCHANGED <<raw, data, signals, bullScore, bearScore, analysis, record,
                   tradingPlan, apiKey, groq, requests>>
    /\ UNCHANGED procVars

\* generateStory with the key: req.write, req.end, and the await.
StoryRequest ==
    /\ pc = "planned"
    /\ apiKey
    /\ requests' = requests + 1
    /\ groq' \in GroqBehaviours
    /\ pc' = "story_awaiting"
    /\ UNCHANGED <<raw, data, signals, bullScore, bearScore, analysis, record,
                   tradingPlan, apiKey, story>>
    /\ UNCHANGED procVars

\* req.on('error', reject): the rejection is caught, the template returned.
StoryRequestError ==
    /\ pc = "story_awaiting"
    /\ groq = "network_error"
    /\ story' = generateFallbackStory(data, analysis)
    /\ pc' = "story_returned"
    /\ UNCHANGED <<raw, data, signals, bullScore, bearScore, analysis, record,
                   tradingPlan, apiKey, groq, requests>>
    /\ UNCHANGED procVars

\* res.on('end', () => resolve(JSON.parse(body))), and what follows the
\* await.  JSON.parse runs in the listener, outside the promise executor and
\* outside the try: on a body that is not JSON it throws there, nothing
\* settles the promise and the exception is uncaught.
StoryResponseEnd ==
    /\ pc = "story_awaiting"
    /\ groq \in {"ok", "no_choices", "non_json"}
    /\ \E content \in Completions :
          IF groq = "non_json"
          THEN /\ pc' = "uncaught_exception"
               /\ story' = story
          ELSE IF groq = "no_choices"
          THEN /\ pc' = "story_returned"
               /\ story' = generateFallbackStory(data, analysis)
          ELSE /\ pc' = "story_returned"
               /\ story' = [source |-> "llm", content |-> Trim(content)]
    /\ UNCHANGED <<raw, data, signals, bullScore, bearScore, analysis, record,
                   tradingPlan, apiKey, groq, requests>>
    /\ UNCHANGED procVars

\* The data objects generateStory is run on: a Fear & Greed value on each
\* side of each threshold of the template, with and without price data.
StoryInputs ==
    {d \in PlanInputs :
        /\ d.fearGreed # Null =>
               d.fearGreed.current \in {0, 20, 21, 40, 41, 74, 75}
        /\ d.hashrate = HashrateFallback
        /\ d.priceData # Null => Len(d.priceData.supports) = 3}

\* generateAnalysis, generateTradingPlan, then generateStory, as main calls
\* them
InitStory ==
    Idle /\ raw = Null /\ data \in StoryInputs /\ NoProcess /\ apiKey \in BOOLEAN

NextStory ==
    \/ GenerateAnalysis
    \/ GenerateTradingPlan
    \/ StoryWithoutKey
    \/ StoryRequest
    \/ StoryRequestError
    \/ StoryResponseEnd

SpecStory == InitStory /\ [][NextStory]_vars

\* The event loop runs every callback that is ready.
SpecStoryFair == SpecStory /\ WF_vars(NextStory)

----------------------------------------------------------------------------
(* The processes of the four scripts *)

\* The variables of the functions main calls after its fan-in.
functionVars ==
    <<raw, data, signals, bullScore, bearScore, analysis, record, tradingPlan,
      story>>

\* update-data.js main: the first array literal calls the seven fetchers,
\* then main awaits Promise.all.
DataFirstFanOut ==
    /\ script = "update-data"
    /\ pc = "start"
    /\ fetches' = [f \in Calls |-> IF f \in FirstBatch THEN Pending
                                   ELSE fetches[f]]
    /\ pc' = "await_first"
    /\ UNCHANGED <<functionVars, apiKey, groq, requests, script, error,
                   exitCode, disk, inputFile, news, context, narrative,
                   written>>
    /\ UNCHANGED <<reads, writer>>

\* While main awaits, the requests of fetcher f end and its promise
\* settles; Promise.all rejects as soon as a promise it holds rejects.
Settle(f) ==
    /\ script = "update-data"
    /\ pc \in {"await_first", "await_second"}
    /\ fetches[f].state = "pending"
    /\ \E outcome \in HttpOutcomes :
          \E settled \in FetcherSettles(f, outcome) :
              /\ fetches' = [fetches EXCEPT ![f] = settled]
              /\ IF settled.state = "rejected"
                 THEN pc' = "main_rejected" /\ error' = "fetcher rejected"
                 ELSE pc' = pc /\ error' = error
    /\ UNCHANGED <<functionVars, apiKey, groq, requests, script, exitCode,
                   disk, inputFile, news, context, narrative, written>>
    /\ UNCHANGED <<reads, writer>>

\* The first Promise.all is fulfilled; main evaluates the second array
\* literal, fetchCOTData() then fetchETFFlows(): a call that throws makes
\* main reject before Promise.all is called.  The steps of main after the
\* second await (lines 779-799) are reached only when this literal does not
\* throw.
DataSecondFanOut ==
    /\ script = "update-data"
    /\ pc = "await_first"
    /\ \A f \in FirstBatch : fetches[f].state = "fulfilled"
    /\ fetches' = [f \in Calls |->
                     IF f \in CalledBeforeThrow(SecondBatch) THEN Pending
                     ELSE fetches[f]]
    /\ IF Throws(SecondBatch)
       THEN pc' = "main_rejected" /\ error' = "ReferenceError"
       ELSE pc' = "await_second" /\ error' = error
    /\ UNCHANGED <<functionVars, apiKey, groq, requests, script, exitCode,
                   disk, inputFile, news, context, narrative, written>>
    /\ UNCHANGED <<reads, writer>>

\* main().catch(e => { console.error('Fatal error:', e); process.exit(1); })
DataCatch ==
    /\ script = "update-data"
    /\ pc = "main_rejected"
    /\ exitCode' = 1
    /\ pc' = "exited"
    /\ UNCHANGED <<functionVars, apiKey, groq, requests, script, fetches,
                   error, disk, inputFile, news, context, narrative, written>>
    /\ UNCHANGED <<reads, writer>>

\* part_000 main: the feeds are fetched one after the other, each in its
\* try/catch, the items sorted and cut; then getMarketContext().
NewsCollect ==
    /\ script = "smart-news"
    /\ pc = "start"
    /\ \E n \in 0..MaxNews : news' = RawNews(n)
    /\ context' = getMarketContext(inputFile)
    /\ reads' = reads \cup ReadOf("data.json", inputFile)
    /\ pc' = "analyze"
    /\ UNCHANGED <<functionVars, apiKey, groq, requests, script, fetches,
                   error, exitCode, disk, inputFile, narrative, written>>
    /\ UNCHANGED writer

\* analyzeNews without GROQ_API_KEY
AnalyzeWithoutKey ==
    /\ script = "smart-news"
    /\ pc = "analyze"
    /\ ~apiKey
    /\ news' = [i \in 1..Len(news) |-> Unanalyzed(news[i], "Impact incertain")]
    /\ pc' = "narrative"
    /\ UNCHANGED <<functionVars, apiKey, groq, requests, script, fetches,
                   error, exitCode, disk, inputFile, context, narrative,
                   written>>
    /\ UNCHANGED <<reads, writer>>

\* analyzeNews with the key: the request and the await
AnalyzeRequest ==
    /\ script = "smart-news"
    /\ pc = "analyze"
    /\ apiKey
    /\ requests' = requests + 1
    /\ groq' \in GroqBehaviours
    /\ pc' = "analyze_awaiting"
    /\ UNCHANGED <<functionVars, apiKey, script, fetches, error, exitCode,
                   disk, inputFile, news, context, narrative, written>>
    /\ UNCHANGED <<reads, writer>>

\* analyzeNews: the response is parsed in a try/catch inside the listener;
\* every failure ends in the items without analysis.
AnalyzeResponse ==
    /\ script = "smart-news"
    /\ pc = "analyze_awaiting"
    /\ groq # "silent"
    /\ \E a \in Analyses :
          news' = [i \in 1..Len(news) |->
                     IF groq = "ok" THEN Analyzed(news[i], a)
                     ELSE Unanalyzed(news[i], "")]
    /\ pc' = "narrative"
    /\ UNCHANGED <<functionVars, apiKey, groq, requests, script, fetches,
                   error, exitCode, disk, inputFile, context, narrative,
                   written>>
    /\ UNCHANGED <<reads, writer>>

\* main filters the items; generateNarrative returns null without the key,
\* without context or without an item of importance 4 or more.
NarrativeSkipped ==
    /\ script = "smart-news"
    /\ pc = "narrative"
    /\ ~apiKey \/ context = Null \/ TopNews(Important(news)) = << >>
    /\ news' = Important(news)
    /\ narrative' = Null
    /\ pc' = "write"
    /\ UNCHANGED <<functionVars, apiKey, groq, requests, script, fetches,
                   error, exitCode, disk, inputFile, context, written>>
    /\ UNCHANGED <<reads, writer>>

\* main filters the items; generateNarrative sends its request.
NarrativeRequest ==
    /\ script = "smart-news"
    /\ pc = "narrative"
    /\ apiKey /\ context # Null /\ TopNews(Important(news)) # << >>
    /\ news' = Important(news)
    /\ requests' = requests + 1
    /\ groq' \in GroqBehaviours
    /\ pc' = "narrative_awaiting"
    /\ UNCHANGED <<functionVars, apiKey, script, fetches, error, exitCode,
                   disk, inputFile, context, narrative, written>>
    /\ UNCHANGED <<reads, writer>>

\* generateNarrative: res.on('end', () => resolve(JSON.parse(body))) throws
\* in the listener on a body that is not JSON; a rejection and a response
\* without choices give null.
NarrativeResponse ==
    /\ script = "smart-news"
    /\ pc = "narrative_awaiting"
    /\ groq # "silent"
    /\ IF groq = "non_json"
       THEN /\ pc' = "uncaught_exception"
            /\ error' = "SyntaxError"
            /\ narrative' = narrative
       ELSE /\ pc' = "write"
            /\ error' = error
            /\ narrative' = IF groq = "ok"
                            THEN [text |-> "paragraphe"] ELSE Null
    /\ UNCHANGED <<functionVars, apiKey, groq, requests, script, fetches,
                   exitCode, disk, inputFile, news, context, written>>
    /\ UNCHANGED <<reads, writer>>

\* fs.writeFileSync(OUTPUT_PATH, JSON.stringify(output, null, 2))
NewsWrite ==
    /\ script = "smart-news"
    /\ pc = "write"
    /\ IF disk = "ok"
       THEN /\ written' = [file |-> "news.json", context |-> context,
                           narrative |-> narrative, news |-> news]
            /\ pc' = "main_resolved"
            /\ error' = error
       ELSE /\ written' = written
            /\ pc' = "main_rejected"
            /\ error' = "write"
    /\ UNCHANGED <<functionVars, apiKey, groq, requests, script, fetches,
                   exitCode, disk, inputFile, news, context, narrative>>
    /\ UNCHANGED <<reads, writer>>

\* main().catch(e => { console.error('Fatal:', e); process.exit(1); }), or
\* the end of the process when main is fulfilled.
NewsExit ==
    /\ script = "smart-news"
    /\ pc \in {"main_resolved", "main_rejected"}
    /\ exitCode' = IF pc = "main_rejected" THEN 1 ELSE 0
    /\ pc' = "exited"
    /\ UNCHANGED <<functionVars, apiKey, groq, requests, script, fetches,
                   error, disk, inputFile, news, context, narrative, written>>
    /\ UNCHANGED <<reads, writer>>

\* An exception no handler catches ends the process with code 1.
UncaughtException ==
    /\ script # "none"
    /\ pc = "uncaught_exception"
    /\ exitCode' = 1
    /\ pc' = "exited"
    /\ UNCHANGED <<functionVars, apiKey, groq, requests, script, fetches,
                   error, disk, inputFile, news, context, narrative, written>>
    /\ UNCHANGED <<reads, writer>>

\* update-news.js, lines 11-15: without the key, process.exit(1) at load.
LegacyWithoutKey ==
    /\ script = "update-news"
    /\ pc = "start"
    /\ ~apiKey
    /\ error' = "GROQ_API_KEY not set"
    /\ exitCode' = 1
    /\ pc' = "exited"
    /\ UNCHANGED <<functionVars, apiKey, groq, requests, script, fetches,
                   disk, inputFile, news, context, narrative, written>>
    /\ UNCHANGED <<reads, writer>>

\* update-news.js main: the feeds, each in its try/catch, then the request
\* of analyzeNews.
LegacyCollect ==
    /\ script = "update-news"
    /\ pc = "start"
    /\ apiKey
    /\ \E n \in 0..MaxNews : news' = RawNews(n)
    /\ requests' = requests + 1
    /\ groq' \in GroqBehaviours
    /\ pc' = "legacy_awaiting"
    /\ UNCHANGED <<functionVars, apiKey, script, fetches, error, exitCode,
                   disk, inputFile, context, narrative, written>>
    /\ UNCHANGED <<reads, writer>>

\* update-news.js main: the try around analyzeNews and the write, and its
\* catch, which writes the items without analysis; a write that fails in
\* the try fails again in the catch and main rejects.
LegacyResponse ==
    /\ script = "update-news"
    /\ pc = "legacy_awaiting"
    /\ groq # "silent"
    /\ \E a \in Analyses :
          LET enriched == [i \in 1..Len(news) |-> LegacyEnriched(news[i], a)]
              fallback == [i \in 1..Len(news) |-> LegacyFallback(news[i])]
              saved == IF groq = "ok" THEN LegacyFiltered(enriched)
                       ELSE SubSeq(fallback, 1, Min(5, Len(fallback)))
          IN  IF disk = "ok"
              THEN /\ news' = saved
                   /\ written' = [file |-> "news.json", news |-> saved]
                   /\ pc' = "main_resolved"
                   /\ error' = error
              ELSE /\ news' = news
                   /\ written' = written
                   /\ pc' = "main_rejected"
                   /\ error' = "write"
    /\ UNCHANGED <<functionVars, apiKey, groq, requests, script, fetches,
                   exitCode, disk, inputFile, context, narrative>>
    /\ UNCHANGED <<reads, writer>>

\* main().catch(console.error): the rejection is logged and the process
\* ends as after a fulfilled main, with code 0.
LegacyExit ==
    /\ script = "update-news"
    /\ pc \in {"main_resolved", "main_rejected"}
    /\ exitCode' = 0
    /\ pc' = "exited"
    /\ UNCHANGED <<functionVars, apiKey, groq, requests, script, fetches,
                   error, disk, inputFile, news, context, narrative, written>>
    /\ UNCHANGED <<reads, writer>>

\* scrapeETFFlows(): the scrape and the write of the cache in the try; in
\* the catch the cached document is returned when the cache file exists
\* and parses, the error thrown again otherwise.
Scrape ==
    /\ script = "etf-scraper"
    /\ pc = "start"
    /\ \E scraped \in BOOLEAN :
          IF scraped /\ disk = "ok"
          THEN /\ written' = [file |-> ".etf-cache.json"]
               /\ pc' = "main_resolved"
               /\ error' = error
               /\ reads' = reads
          ELSE /\ written' = written
               /\ reads' = reads \cup ReadOf(".etf-cache.json", inputFile)
               /\ pc' = IF inputFile = "valid" THEN "main_resolved"
                        ELSE "main_rejected"
               /\ error' = IF inputFile = "valid" THEN error
                           ELSE IF inputFile = "invalid" THEN "SyntaxError"
                           ELSE IF scraped THEN "write" ELSE "scrape"
    /\ UNCHANGED <<functionVars, apiKey, groq, requests, script, fetches,
                   exitCode, disk, inputFile, news, context, narrative>>
    /\ UNCHANGED writer

\* scrapeETFFlows().then(() => process.exit(0)).catch(() => process.exit(1))
ScraperExit ==
    /\ script = "etf-scraper"
    /\ pc \in {"main_resolved", "main_rejected"}
    /\ exitCode' = IF pc = "main_rejected" THEN 1 ELSE 0
    /\ pc' = "exited"
    /\ UNCHANGED <<functionVars, apiKey, groq, requests, script, fetches,
                   error, disk, inputFile, news, context, narrative, written>>
    /\ UNCHANGED <<reads, writer>>

\* update-data.js main, line 798: fs.writeFileSync(OUTPUT_PATH, ...) opens
\* data.json with flag 'w', which truncates it (or creates it empty).
WriteOpen ==
    /\ writer = "ready"
    /\ inputFile' = "empty"
    /\ writer' = "opened"
    /\ UNCHANGED <<functionVars, apiKey, groq, requests, script, fetches,
                   error, exitCode, disk, news, context, narrative, written,
                   reads, pc>>

\* fs.writeFileSync then writes the text into the open file, in one write
\* or in several, and closes it.
WriteBytes ==
    /\ writer \in {"opened", "writing"}
    /\ \E rest \in BOOLEAN :
          /\ rest => writer = "opened"
          /\ inputFile' = IF rest THEN "partial" ELSE "new"
          /\ writer' = IF rest THEN "writing" ELSE "closed"
    /\ UNCHANGED <<functionVars, apiKey, groq, requests, script, fetches,
                   error, exitCode, disk, news, context, narrative, written,
                   reads, pc>>

\* The entry points.
Scripts == {"update-data", "smart-news", "update-news", "etf-scraper"}

\* A run of one script.  update-data.js reads no file, and its run ends
\* before its write: its disk and file are fixed.  The scraper does not
\* read the key.
InitScripts ==
    /\ Idle /\ raw = Null /\ data = NoData
    /\ script \in Scripts
    /\ apiKey \in BOOLEAN
    /\ disk \in {"ok", "fails"}
    /\ inputFile \in {"absent", "invalid", "valid"}
    /\ script = "update-data" => disk = "ok" /\ inputFile = "absent"
    /\ script = "etf-scraper" => ~apiKey
    /\ writer = "none"

NextScripts ==
    \/ DataFirstFanOut
    \/ \E f \in Calls : Settle(f)
    \/ DataSecondFanOut
    \/ DataCatch
    \/ NewsCollect
    \/ AnalyzeWithoutKey
    \/ AnalyzeRequest
    \/ AnalyzeResponse
    \/ NarrativeSkipped
    \/ NarrativeRequest
    \/ NarrativeResponse
    \/ NewsWrite
    \/ NewsExit
    \/ UncaughtException
    \/ LegacyWithoutKey
    \/ LegacyCollect
    \/ LegacyResponse
    \/ LegacyExit
    \/ Scrape
    \/ ScraperExit

SpecScripts == InitScripts /\ [][NextScripts]_vars

\* A run of the news engine beside a run of update-data.js that stands at
\* its writeFileSync, over a complete previous data.json.  cron starts the
\* two independently, and nothing in either script waits for the other.
InitWrite ==
    /\ Idle /\ raw = Null /\ data = NoData
    /\ script = "smart-news"
    /\ apiKey \in BOOLEAN
    /\ disk \in {"ok", "fails"}
    /\ inputFile = "valid"
    /\ writer = "ready"

NextWrite ==
    \/ WriteOpen
    \/ WriteBytes
    \/ NewsCollect
    \/ AnalyzeWithoutKey
    \/ AnalyzeRequest
    \/ AnalyzeResponse
    \/ NarrativeSkipped
    \/ NarrativeRequest
    \/ NarrativeResponse
    \/ NewsWrite
    \/ NewsExit
    \/ UncaughtException

SpecWrite == InitWrite /\ [][NextWrite]_vars

----------------------------------------------------------------------------
(* Properties *)

\* Sum of the weights of the entries of s whose type is t.
RECURSIVE SumWeights(_, _)
SumWeights(s, t) ==
    IF s = << >> THEN 0
    ELSE (IF Head(s).type = t THEN Head(s).weight ELSE 0) + SumWeights(Tail(s), t)

\* The entries of s whose reason is not in R, in order.
RECURSIVE Without(_, _)
Without(s, R) ==
    IF s = << >> THEN << >>
    ELSE IF Head(s).reason \in R THEN Without(Tail(s), R)
    ELSE <<Head(s)>> \o Without(Tail(s), R)

Returned == pc = "returned" /\ analysis # Null

\* C1: whatever indicators are present or absent, and whatever their values,
\* the returned aggregate has score.net = score.bull - score.bear.
C1_NetIsBullMinusBear ==
    Returned => analysis.score.net = analysis.score.bull - analysis.score.bear

\* An aggregate with absent indicators and both scores positive.
C1_Witness ==
    /\ Returned
    /\ data.fearGreed = Null
    /\ data.cot = Null
    /\ analysis.score.bull > 0
    /\ analysis.score.bear > 0

\* What the Fear & Greed rule is said to contribute for the value v: the
\* entries (type and weight) and the two score increments.
FearGreedExpected(v) ==
    IF v <= 15 THEN [type |-> "bullish", weight |-> 3, bull |-> 3, bear |-> 0]
    ELSE IF v >= 16 /\ v <= 25
    THEN [type |-> "bullish", weight |-> 2, bull |-> 2, bear |-> 0]
    ELSE IF v >= 80 THEN [type |-> "bearish", weight |-> 3, bull |-> 0, bear |-> 3]
    ELSE IF v >= 65 /\ v < 80
    THEN [type |-> "bearish", weight |-> 2, bull |-> 0, bear |-> 2]
    ELSE [type |-> "none", weight |-> 0, bull |-> 0, bear |-> 0]

\* C2: for every Fear & Greed value v in 0..100 the rule contributes exactly
\* one bullish entry of weight 3 (v <= 15), one bullish entry of weight 2
\* (16..25), one bearish entry of weight 3 (v >= 80), one bearish entry of
\* weight 2 (65..79), and nothing for 26..64: the list and the scores are
\* those of the same indicators without fearGreed, plus that contribution.
C2_FearGreedContribution ==
    (Returned /\ data.fearGreed # Null) =>
        LET e    == FearGreedExpected(data.fearGreed.current)
            rest == RunRules([data EXCEPT !.fearGreed = Null])
        IN  /\ bullScore = rest.bullScore + e.bull
            /\ bearScore = rest.bearScore + e.bear
            /\ IF e.type = "none"
               THEN signals = rest.signals
               ELSE /\ Len(signals) = Len(rest.signals) + 1
                    /\ signals[1].type = e.type
                    /\ signals[1].weight = e.weight
                    /\ Tail(signals) = rest.signals

\* The value 15 with other rules firing too: the first entry is the bullish
\* entry of weight 3.
C2_Witness ==
    /\ Returned
    /\ data.fearGreed # Null
    /\ data.fearGreed.current = 15
    /\ Len(signals) > 1
    /\ signals[1].weight = 3
    /\ signals[1].type = "bullish"

\* C3: the label is decided by the net score alone, each net score has
\* exactly one label: strong_accumulation iff n >= 5, accumulation iff
\* 2 <= n <= 4, neutral iff -1 <= n <= 1, distribution iff -4 <= n <= -2,
\* strong_distribution iff n <= -5.
C3_LabelPartition ==
    Returned =>
        LET n == analysis.score.net
            l == analysis.signal
        IN  /\ l \in {"strong_accumulation", "accumulation", "neutral",
                      "distribution", "strong_distribution"}
            /\ (l = "strong_accumulation") <=> (n >= 5)
            /\ (l = "accumulation") <=> (2 <= n /\ n <= 4)
            /\ (l = "neutral") <=> (-1 <= n /\ n <= 1)
            /\ (l = "distribution") <=> (-4 <= n /\ n <= -2)
            /\ (l = "strong_distribution") <=> (n <= -5)

\* A net score on the boundary 5.
C3_Witness ==
    /\ Returned
    /\ analysis.score.net = 5
    /\ analysis.signal = "strong_accumulation"

\* C4: with every indicator null, generateAnalysis returns bull = 0,
\* bear = 0, net = 0, signal neutral and an empty signals list.
C4_AllNull ==
    (pc = "returned" /\ data = NoData) =>
        /\ analysis # Null
        /\ analysis.score = [bull |-> 0, bear |-> 0, net |-> 0]
        /\ analysis.signal = "neutral"
        /\ analysis.signals = << >>

C4_Witness == pc = "returned" /\ data = NoData /\ analysis # Null

\* The end-to-end scenario: Fear & Greed 12, hedge funds 65% short, ETF daily
\* +80, funding normal, liquidations balanced, hashrate bullish, and nothing
\* else triggering.
Scenario ==
    /\ data.fearGreed # Null /\ data.fearGreed.current = 12
    /\ data.cot # Null
    /\ data.cot.categories.leveragedFunds.shortPct = 650
    /\ data.cot.categories.assetManagers.signal # "bullish"
    /\ data.etf # Null /\ data.etf.daily = 80 /\ data.etf.weekly >= -300
    /\ data.funding # Null /\ data.funding.signal = "normal"
    /\ data.liquidations # Null /\ data.liquidations.signal = "balanced"
    /\ data.hashrate # Null /\ data.hashrate.signal = "bullish"
    /\ \/ data.longShort = Null
       \/ /\ data.longShort.signal = "neutral"
          /\ data.longShort.takerBuySellRatio >= 95
          /\ data.longShort.takerBuySellRatio <= 105

\* C5: in the scenario generateAnalysis returns bull = 7, bear = 0, net = 7
\* and the signal strong_accumulation.
C5_Scenario ==
    (pc = "returned" /\ Scenario) =>
        /\ analysis # Null
        /\ analysis.score = [bull |-> 7, bear |-> 0, net |-> 7]
        /\ analysis.signal = "strong_accumulation"

C5_Witness ==
    /\ pc = "returned"
    /\ Scenario
    /\ data.longShort # Null
    /\ Len(analysis.signals) = 4

\* The place of each rule in the evaluation order: Fear & Greed, COT (hedge
\* funds, institutions), ETF (daily, weekly), Long/Short, Funding,
\* Liquidations, Hashrate, Taker ratio.
RuleRank(reason) ==
    CASE reason \in {"Extreme Fear historique - zone d'achat",
                     "Fear elevee - opportunite possible",
                     "Extreme Greed - prudence maximale",
                     "Greed elevee - attention"} -> 1
      [] reason = "Hedge Funds tres short - squeeze possible" -> 2
      [] reason = "Institutions accumulent" -> 3
      [] reason \in {"ETF inflows positifs", "ETF outflows importants"} -> 4
      [] reason = "ETF outflows sur la semaine" -> 5
      [] reason \in {"Retail tres short - potentiel squeeze",
                     "Retail tres long - risque de dump"} -> 6
      [] reason \in {"Funding negatif - shorts paient",
                     "Funding tres eleve - surchauffe"} -> 7
      [] reason \in {"Shorts liquides massivement",
                     "Longs liquides - capitulation"} -> 8
      [] reason \in {"Hashrate en hausse - mineurs confiants",
                     "Hashrate en chute - mineurs en difficulte",
                     "Hashrate en baisse"} -> 9
      [] reason \in {"Plus de vendeurs que d'acheteurs",
                     "Plus d'acheteurs que de vendeurs"} -> 10
      [] OTHER -> 0

\* C6: the returned signals are the first min(5, k) of the k triggered
\* entries, which stand in the fixed rule order; the weights play no part.
C6_FirstFiveInRuleOrder ==
    Returned =>
        LET k == Len(signals)
        IN  /\ Len(analysis.signals) = Min(5, k)
            /\ \A i \in 1..Min(5, k) : analysis.signals[i] = signals[i]
            /\ \A i \in 1..k : RuleRank(signals[i].reason) >= 1
            /\ \A i \in 1..k, j \in 1..k :
                  i < j => RuleRank(signals[i].reason) < RuleRank(signals[j].reason)

\* A weight-1 entry is returned while a weight-2 entry, evaluated later, is
\* cut off.
C6_Witness ==
    /\ Returned
    /\ \E i \in 1..Len(analysis.signals) : analysis.signals[i].weight = 1
    /\ \E j \in 6..Len(signals) : signals[j].weight = 2

\* C7: every entry has weight 1, 2 or 3 and type bullish or bearish, and
\* over the untruncated list the bull score is the sum of the bullish
\* weights and the bear score the sum of the bearish weights; both scores
\* are non-negative and are the scores returned.
C7_ScoresSumWeights ==
    Returned =>
        /\ \A i \in 1..Len(signals) :
              /\ signals[i].weight \in {1, 2, 3}
              /\ signals[i].type \in {"bullish", "bearish"}
        /\ bullScore = SumWeights(signals, "bullish")
        /\ bearScore = SumWeights(signals, "bearish")
        /\ bullScore \in Nat
        /\ bearScore \in Nat
        /\ analysis.score.bull = bullScore
        /\ analysis.score.bear = bearScore

\* More than five entries, of both types, one of them the hashrate rule's
\* bearish entry of weight 2.
C7_Witness ==
    /\ Returned
    /\ Len(signals) > 5
    /\ bullScore > 0
    /\ bearScore > 0
    /\ \E i \in 1..Len(signals) :
          signals[i].reason = "Hashrate en chute - mineurs en difficulte"

\* The indicators the rules are guarded on, and the reasons of the rules
\* guarded on each.
Indicators ==
    {"fearGreed", "cot", "etf", "longShort", "funding", "liquidations", "hashrate"}

ReasonsOf(k) ==
    LET ranks == CASE k = "fearGreed" -> {1}
                   [] k = "cot" -> {2, 3}
                   [] k = "etf" -> {4, 5}
                   [] k = "longShort" -> {6, 10}
                   [] k = "funding" -> {7}
                   [] k = "liquidations" -> {8}
                   [] k = "hashrate" -> {9}
    IN  {signals[i].reason : i \in {j \in 1..Len(signals) :
                                        RuleRank(signals[j].reason) \in ranks}}

\* C8: setting one indicator to null removes exactly the entries and the
\* score of the rules guarded on it and leaves the other rules'
\* contributions as they are; the hashrate fallback and the COT fallback
\* trigger no rule and add nothing to either score.
C8_MissingMeansNoContribution ==
    Returned =>
        /\ \A k \in Indicators :
              LET without == RunRules([data EXCEPT ![k] = Null])
                  kept    == Without(signals, ReasonsOf(k))
              IN  /\ without.signals = kept
                  /\ without.bullScore = SumWeights(kept, "bullish")
                  /\ without.bearScore = SumWeights(kept, "bearish")
        /\ data.hashrate = HashrateFallback =>
              /\ ReasonsOf("hashrate") = {}
              /\ RunRules([data EXCEPT !.hashrate = Null]).bullScore = bullScore
              /\ RunRules([data EXCEPT !.hashrate = Null]).bearScore = bearScore
        /\ data.cot = getCOTFallback =>
              /\ ReasonsOf("cot") = {}
              /\ RunRules([data EXCEPT !.cot = Null]).bullScore = bullScore
              /\ RunRules([data EXCEPT !.cot = Null]).bearScore = bearScore

\* Both fallback records present, the etf indicator absent, and other rules
\* firing.
C8_Witness ==
    /\ Returned
    /\ data.hashrate = HashrateFallback
    /\ data.cot = getCOTFallback
    /\ data.etf = Null
    /\ Len(signals) >= 3

\* The trend as the priority order states it, on changes in tenths of a
\* percent.
TrendByPriority(change24h, change7d, changeFromPeak) ==
    IF changeFromPeak < -150 THEN "crashing"
    ELSE IF change24h < -20 /\ changeFromPeak < -50 THEN "dropping"
    ELSE IF change24h > 20 /\ change7d > 50 THEN "rising"
    ELSE IF change7d > 0 /\ change24h >= -20 THEN "stable"
    ELSE "falling"

Classified == pc = "returned" /\ record # Null /\ record.trend # "unknown"

\* C9: the trend of a hashrate record is decided by its change24h, change7d
\* and changeFromPeak in the order crashing, dropping, rising, stable,
\* falling; (-3, -20 from peak) is crashing, (24h 3, 7d 6) is rising and
\* (24h -1, 7d 1) is stable.
C9_TrendByPriority ==
    Classified =>
        /\ record.trend =
              TrendByPriority(record.change24h, record.change7d, record.changeFromPeak)
        /\ (record.change24h = -30 /\ record.changeFromPeak = -200)
              => record.trend = "crashing"
        /\ (record.change24h = 30 /\ record.change7d = 60)
              => record.trend = "rising"
        /\ (record.change24h = -10 /\ record.change7d = 10)
              => record.trend = "stable"

\* The record for 24h -3.0% and -20.0% from the peak: both the crashing and
\* the dropping condition hold.
C9_Witness ==
    /\ Classified
    /\ record.change24h = -30
    /\ record.changeFromPeak = -200
    /\ record.trend = "crashing"

\* Sum of the values of the orders of s on the given side (long: SELL) whose
\* time is in the set T.
RECURSIVE SideSum(_, _, _)
SideSum(s, long, T) ==
    IF s = << >> THEN 0
    ELSE (IF (Head(s).side = "SELL") = long /\ Head(s).time \in T
          THEN Head(s).val ELSE 0)
         + SideSum(Tail(s), long, T)

\* C10: an order later than now-1h counts in the 1h and the 24h bucket, an
\* order between now-24h and now-1h counts in the 24h bucket only, an older
\* order counts in neither; SELL orders go to the long side, the others to
\* the short side.
C10_Windowing ==
    (pc = "returned" /\ raw # Null) =>
        LET times   == {raw.orders[i].time : i \in 1..Len(raw.orders)}
            Recent  == {t \in times : t > raw.now1 - Hour}
            Between == {t \in times : t >= raw.now24 - 24 * Hour /\ t <= raw.now1 - Hour}
            In1h    == Recent
            In24h   == Recent \cup Between
        IN  /\ record # Null
            /\ record.h1.longs   = SideSum(raw.orders, TRUE, In1h)
            /\ record.h1.shorts  = SideSum(raw.orders, FALSE, In1h)
            /\ record.h24.longs  = SideSum(raw.orders, TRUE, In24h)
            /\ record.h24.shorts = SideSum(raw.orders, FALSE, In24h)

\* An order 30 minutes old and an order 2 hours old: the first is in both
\* buckets, the second in the 24h bucket only.
C10_Witness ==
    /\ pc = "returned"
    /\ raw # Null
    /\ record # Null
    /\ Len(raw.orders) = 2
    /\ raw.orders[1].time = Now - 30
    /\ raw.orders[2].time = Now - 2 * Hour
    /\ record.h1.total = raw.orders[1].val
    /\ record.h24.total = raw.orders[1].val + raw.orders[2].val

----------------------------------------------------------------------------
(* The trading plan *)

Planned == pc = "planned" /\ tradingPlan # Null

\* C11: the bias of the plan follows the label of the aggregator: strength
\* Fort exactly for the two strong labels, Modere exactly for accumulation
\* and distribution, Attente exactly for neutral; direction ACHAT exactly
\* for accumulation and strong_accumulation; maxPosition is 3-5% exactly
\* when the strength is Fort, and 1-2% otherwise.
C11_BiasFollowsLabel ==
    Planned =>
        LET label == analysis.signal
            bias == tradingPlan.bias
        IN  /\ bias.strength = "Fort" <=>
                  label \in {"strong_accumulation", "strong_distribution"}
            /\ bias.strength = "Modere" <=>
                  label \in {"accumulation", "distribution"}
            /\ bias.strength = "Attente" <=> label = "neutral"
            /\ bias.direction = "ACHAT" <=>
                  label \in {"accumulation", "strong_accumulation"}
            /\ tradingPlan.risk.maxPosition =
                  IF bias.strength = "Fort" THEN "3-5%" ELSE "1-2%"

\* A plan on a net score on the strong boundary, 5 or -5.
C11_Witness ==
    /\ Planned
    /\ Abs(analysis.score.net) = 5
    /\ tradingPlan.bias.strength = "Fort"
    /\ tradingPlan.risk.maxPosition = "3-5%"

\* C12: with price data present, for every Fear & Greed value v in 0..100
\* the plan's timeframe is 24-72h when v <= 20 or v >= 80, and 1-2 semaines
\* otherwise.
C12_HorizonByFearGreed ==
    (Planned /\ data.fearGreed # Null) =>
        LET v == data.fearGreed.current
        IN  tradingPlan.horizon.timeframe =
                IF v <= 20 \/ v >= 80 THEN "24-72h" ELSE "1-2 semaines"

\* The same for every value but 0, which the plan reads as 50.
C12_HorizonByNonZeroFearGreed ==
    (Planned /\ data.fearGreed # Null /\ data.fearGreed.current # 0) =>
        LET v == data.fearGreed.current
        IN  tradingPlan.horizon.timeframe =
                IF v <= 20 \/ v >= 80 THEN "24-72h" ELSE "1-2 semaines"

\* The factor text an aggregate signal is re-labeled to, "" when the plan
\* has no factor for it.
FactorOf(reason) ==
    IF reason \in {"Extreme Fear historique - zone d'achat",
                   "Fear elevee - opportunite possible"}
    THEN "Fear & Greed extreme"
    ELSE IF reason \in {"Extreme Greed - prudence maximale",
                        "Greed elevee - attention"}
    THEN "Greed extreme"
    ELSE IF reason = "Hedge Funds tres short - squeeze possible"
    THEN "Hedge Funds short - squeeze possible"
    ELSE IF reason = "ETF inflows positifs" THEN "ETF inflows"
    ELSE IF reason = "ETF outflows sur la semaine" THEN "ETF outflows semaine"
    ELSE IF reason = "Hashrate en baisse" THEN "Hashrate en baisse"
    ELSE ""

\* The texts of the factors of s, in order.
Texts(s) == [i \in 1..Len(s) |-> s[i].text]

\* The factor texts of the aggregate signals of s, in order.
Relabeled(s) == [i \in 1..Len(s) |-> FactorOf(s[i].reason)]

\* s can be read in t, left to right, skipping entries of t.
RECURSIVE IsSubsequence(_, _)
IsSubsequence(s, t) ==
    IF s = << >> THEN TRUE
    ELSE IF t = << >> THEN FALSE
    ELSE IF Head(s) = Head(t) THEN IsSubsequence(Tail(s), Tail(t))
    ELSE IsSubsequence(s, Tail(t))

\* The factor texts the plan's own conditions select, before the cut.
OwnFactors(d) ==
    LET fg == IF d.fearGreed = Null \/ d.fearGreed.current = 0
              THEN 50 ELSE d.fearGreed.current
    IN  (IF fg <= 20 THEN <<"Fear & Greed extreme">>
         ELSE IF fg >= 80 THEN <<"Greed extreme">> ELSE << >>)
        \o (IF d.cot # Null /\ d.cot.categories.leveragedFunds.shortPct > 600
            THEN <<"Hedge Funds short - squeeze possible">> ELSE << >>)
        \o (IF d.etf # Null /\ d.etf.weekly < -300
            THEN <<"ETF outflows semaine">>
            ELSE IF d.etf # Null /\ d.etf.daily > 100
            THEN <<"ETF inflows">> ELSE << >>)
        \o (IF d.hashrate # Null /\ d.hashrate.trend = "dropping"
            THEN <<"Hashrate en baisse">> ELSE << >>)

\* C13 as stated: the factors are the first three aggregate signals
\* re-labeled: each factor corresponds to one of the first three entries of
\* analysis.signals, in the same order, and each of these three entries
\* appears as a factor.
C13_FactorsAreTopSignals ==
    Planned =>
        Texts(tradingPlan.factors) =
            Relabeled(SubSeq(analysis.signals, 1,
                             Min(3, Len(analysis.signals))))

\* C13, amended: each factor corresponds to a signal of the aggregator's
\* untruncated list, in the same relative order, but the factors are chosen
\* by the plan's own conditions (Fear & Greed <= 20 or >= 80 after the
\* default of 50, hedge funds more than 60% short, ETF weekly below -300 or
\* else daily above 100, hashrate dropping) and cut to the first three.
C13_FactorsFromOwnConditions ==
    Planned =>
        /\ IsSubsequence(Texts(tradingPlan.factors), Relabeled(signals))
        /\ Texts(tradingPlan.factors) =
               SubSeq(OwnFactors(data), 1, Min(3, Len(OwnFactors(data))))

\* A plan whose four conditions all hold, cut to three factors, while the
\* first three aggregate signals include one that is no factor.
C13_Witness ==
    /\ Planned
    /\ Len(Factors(data)) = 4
    /\ Len(tradingPlan.factors) = 3
    /\ \E i \in 1..3 : FactorOf(analysis.signals[i].reason) = ""

----------------------------------------------------------------------------
(* The narrative *)

\* generateStory was called and the request, if one was sent, is over.
StoryOver == pc \in {"story_returned", "uncaught_exception"}

\* C14: generateStory sends at most one request and never retries; without
\* the key it sends none; when the request fails (network error, body that
\* is not JSON, response without choices) it returns exactly the story
\* generateFallbackStory returns on the same data and analysis, so the
\* narrative step always returns.
C14_OneRequestThenFallback ==
    /\ requests <= 1
    /\ ~apiKey => requests = 0
    /\ (StoryOver /\ (~apiKey \/ groq \in {"network_error", "non_json",
                                          "no_choices"})) =>
           /\ pc = "story_returned"
           /\ story = generateFallbackStory(data, analysis)

\* The same without the body that is not JSON.
C14_FallbackOnRejectionOrNoChoices ==
    /\ requests <= 1
    /\ ~apiKey => requests = 0
    /\ (StoryOver /\ (~apiKey \/ groq \in {"network_error", "no_choices"})) =>
           /\ pc = "story_returned"
           /\ story = generateFallbackStory(data, analysis)

\* C15: generateStory eventually returns, even when the service accepts the
\* request and never sends a response.
C15_SilentServiceTimesOut ==
    (pc = "story_awaiting" /\ groq = "silent") ~> (pc = "story_returned")

\* The state the run stays in: awaiting a silent service, nothing enabled.
C15_AwaitingForever ==
    ~(pc = "story_awaiting" /\ groq = "silent" /\ ~ENABLED NextStory)

----------------------------------------------------------------------------
(* The orchestrator and the entry points *)

\* The seven indicator fetchers of the first fan-out, and fetchCOTData.
MarketFetchers ==
    {"fetchFearGreed", "fetchLongShort", "fetchOpenInterest", "fetchFunding",
     "fetchLiquidations", "fetchHashrate", "fetchPriceData"}

IndicatorFetchers == MarketFetchers \cup {"fetchCOTData"}

Called(f) == fetches[f].state # "not_called"

Fulfilled(f) == fetches[f].state = "fulfilled"

C17_AllFetchesStartTogether ==
    (\E f \in Calls : fetches[f].state \in {"fulfilled", "rejected"}) =>
        \A g \in Calls : Called(g)

\* C17, amended: the seven fetches of the first fan-out are started
\* together, each before any of them has completed; the COT fetch is
\* started only after all seven have settled; no fetch is ever started for
\* the ETF flows.
C17_TwoPhases ==
    /\ (\E f \in MarketFetchers : Called(f)) =>
           \A g \in MarketFetchers : Called(g)
    /\ Called("fetchCOTData") => \A g \in MarketFetchers : Fulfilled(g)
    /\ ~Called("fetchETFFlows")

\* The COT fetch is pending, started after the seven have settled.
C17_Witness ==
    /\ script = "update-data"
    /\ fetches["fetchCOTData"].state = "pending"
    /\ \A g \in MarketFetchers : Fulfilled(g)
    /\ \E g \in MarketFetchers : fetches[g].outcome = "success"

\* C18: every run of update-data.js reaches the write of the composite
\* document; only an error raised by the final serialization or write ends
\* it with a non-zero exit code.
C18_RunReachesWrite ==
    (script = "update-data" /\ pc = "exited") =>
        /\ exitCode # 0 => error = "write"
        /\ exitCode = 0 => written # Null

\* C19: each entry point exits non-zero when its top-level promise rejects
\* with an unrecovered error, and zero otherwise.
C19_ExitCodeFollowsMain ==
    (script \in Scripts /\ pc = "exited") =>
        (exitCode # 0 <=> error # "none")

\* The same for the entry points other than update-news.js.
C19_ExitCodeExceptLegacyNews ==
    (script \in Scripts \ {"update-news"} /\ pc = "exited") =>
        (exitCode # 0 <=> error # "none")

\* The document a script writes when it runs without the key and its
\* write succeeds.
WroteFallback ==
    /\ written # Null
    /\ script = "smart-news" =>
           /\ written.narrative = Null
           /\ \A i \in 1..Len(written.news) :
                 /\ written.news[i].impact = "neutre"
                 /\ written.news[i].importance = 3
    /\ script = "update-news" =>
           \A i \in 1..Len(written.news) :
              /\ written.news[i].impact = "neutre"
              /\ written.news[i].relevance = 3
    /\ script = "update-data" => written.story.source = "template"

\* C20: in every script that uses GROQ_API_KEY, a run without the key
\* writes its output document with the fallback contents and does not exit
\* with a failure code.
C20_NoKeyFallsBack ==
    (script \in {"update-data", "smart-news", "update-news"}
     /\ ~apiKey /\ disk = "ok" /\ pc = "exited") =>
        exitCode = 0 /\ WroteFallback

\* The same for the news engine of part_000 alone.
C20_SmartNewsFallsBack ==
    (script = "smart-news" /\ ~apiKey /\ disk = "ok" /\ pc = "exited") =>
        exitCode = 0 /\ WroteFallback

----------------------------------------------------------------------------
(* Long/short, COT, files *)

\* s has exactly one entry of reason r, and it has type t and weight w.
OneEntry(s, r, t, w) ==
    /\ Cardinality({i \in 1..Len(s) : s[i].reason = r}) = 1
    /\ \A i \in 1..Len(s) : s[i].reason = r => s[i].type = t /\ s[i].weight = w

NoEntry(s, r) == \A i \in 1..Len(s) : s[i].reason # r

\* C21: fetchLongShort sets signal to squeeze_possible iff the top-trader
\* short% is above 55, else dump_possible iff the long% is above 55, else
\* neutral; generateAnalysis adds bullish weight 1 for squeeze_possible and
\* bearish weight 1 for dump_possible, and separately bearish weight 1 iff
\* the taker ratio is below 0.95, bullish weight 1 iff it is above 1.05,
\* nothing within [0.95, 1.05], the default ratio 1 of a missing taker
\* series included.
C21_LongShortSignals ==
    /\ (pc = "returned" /\ record # Null) =>
           LET short == record.topTraders.short
               long == record.topTraders.long
           IN  /\ record.signal = "squeeze_possible" <=> short > 550
               /\ record.signal = "dump_possible" <=>
                      (~(short > 550) /\ long > 550)
               /\ record.signal = "neutral" <=>
                      (~(short > 550) /\ ~(long > 550))
               /\ raw.taker = Null => record.takerBuySellRatio = 100
    /\ (Returned /\ data.longShort # Null) =>
           LET ls == data.longShort
               taker == ls.takerBuySellRatio
               squeeze == "Retail tres short - potentiel squeeze"
               dump == "Retail tres long - risque de dump"
               sellers == "Plus de vendeurs que d'acheteurs"
               buyers == "Plus d'acheteurs que de vendeurs"
           IN  /\ IF ls.signal = "squeeze_possible"
                  THEN OneEntry(signals, squeeze, "bullish", 1)
                  ELSE NoEntry(signals, squeeze)
               /\ IF ls.signal = "dump_possible"
                  THEN OneEntry(signals, dump, "bearish", 1)
                  ELSE NoEntry(signals, dump)
               /\ IF taker < 95
                  THEN OneEntry(signals, sellers, "bearish", 1)
                  ELSE NoEntry(signals, sellers)
               /\ IF taker > 105
                  THEN OneEntry(signals, buyers, "bullish", 1)
                  ELSE NoEntry(signals, buyers)
               /\ bullScore = (IF ls.signal = "squeeze_possible" THEN 1 ELSE 0)
                              + (IF taker > 105 THEN 1 ELSE 0)
               /\ bearScore = (IF ls.signal = "dump_possible" THEN 1 ELSE 0)
                              + (IF taker < 95 THEN 1 ELSE 0)

\* A record of exactly 55.0% short, neutral, with the default taker ratio.
C21_Witness ==
    /\ pc = "returned" /\ record # Null
    /\ record.topTraders.short = 550
    /\ record.signal = "neutral"
    /\ raw.taker = Null
    /\ record.takerBuySellRatio = 100

\* An aggregate on a squeeze signal with a taker ratio read as 0.94.
C21_WitnessAggregate ==
    /\ Returned /\ data.longShort # Null
    /\ data.longShort.signal = "squeeze_possible"
    /\ data.longShort.takerBuySellRatio = 94
    /\ bullScore = 1 /\ bearScore = 1

\* The signal of the 1.5x dominance ratio.
Dominance(c) ==
    IF 2 * c.long > 3 * c.short THEN "bullish"
    ELSE IF 2 * c.short > 3 * c.long THEN "bearish"
    ELSE "neutral"

\* C22: in every record fetchCOTData builds from a parsed report line, each
\* of the four categories has net = long - short and the signal of the
\* 1.5x dominance ratio: bullish iff long > 1.5 * short, bearish iff
\* short > 1.5 * long, neutral otherwise.
C22_CategorySignals ==
    (pc = "returned" /\ raw # Null) =>
        \A name \in {"dealers", "assetManagers", "leveragedFunds", "retail"} :
            LET c == record.categories[name]
            IN  c.net = c.long - c.short /\ c.signal = Dominance(c)

\* The same for the three categories other than retail, and the net of all
\* four.
C22_ExceptRetailSignal ==
    (pc = "returned" /\ raw # Null) =>
        /\ \A name \in {"dealers", "assetManagers", "leveragedFunds"} :
              LET c == record.categories[name]
              IN  c.net = c.long - c.short /\ c.signal = Dominance(c)
        /\ record.categories.retail.net =
              record.categories.retail.long - record.categories.retail.short

C23_TornReadGivesNullContext ==
    \A rd \in reads :
        rd.content \in {"empty", "partial"} =>
            context = Null /\ narrative = Null /\ pc # "uncaught_exception"


NewsEngines == {"smart-news", "update-news"}

\* The state part of C24.
C24_OptionalContext ==
    /\ script \in NewsEngines =>
          /\ written # Null => written.file = "news.json"
          /\ \A rd \in reads : rd.file = "data.json"
    /\ script = "update-data" => reads = {} /\ written = Null
    /\ (script = "smart-news" /\ inputFile \notin Parseable) =>
          /\ context = Null /\ narrative = Null
          /\ pc # "uncaught_exception" /\ error \in {"none", "write"}
          /\ written # Null =>
                written.context = Null /\ written.narrative = Null
          /\ (pc \in {"main_resolved", "exited"} /\ disk = "ok") =>
                written # Null /\ error = "none"

\* C24: data.json is optional, read-only context of the news engine: no step
\* of a news run changes data.json and what a news run writes is news.json;
\* over an absent or unparseable data.json getMarketContext gives null and
\* throws nothing, and the run that reaches its write with a working disk
\* writes news.json with context null and narrative null; the data engine
\* reads no file.
C24_ReadOnlyOptionalContext ==
    /\ []C24_OptionalContext
    /\ [][inputFile' = inputFile]_vars

C24_Witness ==
    /\ script = "smart-news" /\ apiKey /\ inputFile = "invalid"
    /\ pc = "exited" /\ exitCode = 0
    /\ reads = {[file |-> "data.json", content |-> "invalid"]}
    /\ written # Null /\ written.context = Null /\ written.narrative = Null
    /\ \E i \in 1..Len(written.news) : written.news[i].importance >= 4

C24_WitnessAbsent ==
    /\ script = "smart-news" /\ apiKey /\ inputFile = "absent"
    /\ pc = "exited" /\ written # Null /\ written.context = Null

----------------------------------------------------------------------------
(* The hierarchy of factors, the truncated signals, the hashrate *)

\* The positions of s whose level is l.
AtLevel(s, l) == {i \in 1..Len(s) : s[i].level = l}

\* C25: in every trading plan, factors has at most 3 entries, at most one of
\* them has level PRINCIPAL, and an entry of level CONFIRMANT comes only
\* after an entry of level PRINCIPAL.
C25_FactorHierarchy ==
    Planned =>
        LET f == tradingPlan.factors
        IN  /\ Len(f) <= 3
            /\ Cardinality(AtLevel(f, "PRINCIPAL")) <= 1
            /\ \A i \in AtLevel(f, "CONFIRMANT") :
                   \E j \in AtLevel(f, "PRINCIPAL") : j < i

\* A plan with four factors before the cut: the principal one, two
\* confirming ones, and the hashrate one that is cut.
C25_Witness ==
    /\ Planned
    /\ Len(Factors(data)) = 4
    /\ [i \in 1..3 |-> tradingPlan.factors[i].level] =
           <<"PRINCIPAL", "CONFIRMANT", "CONFIRMANT">>

\* A plan whose principal factor is the hedge funds one, after no Fear &
\* Greed factor, and a plan that opens with the weekly outflow.
C25_WitnessHedgeFundsPrincipal ==
    /\ Planned
    /\ Len(tradingPlan.factors) >= 2
    /\ tradingPlan.factors[1].text = "Hedge Funds short - squeeze possible"
    /\ tradingPlan.factors[1].level = "PRINCIPAL"
    /\ tradingPlan.factors[2].level = "CONFIRMANT"

C25_WitnessAttentionFirst ==
    /\ Planned
    /\ Len(tradingPlan.factors) >= 1
    /\ tradingPlan.factors[1].level = "ATTENTION"

\* C26: in every aggregate, the weights of the bullish entries of the
\* returned (truncated) list sum to at most score.bull and those of the
\* bearish entries to at most score.bear, with equality for both when at most
\* five rules fired; when more than five fired, the scores and the label
\* count every rule that fired, the ones cut from the list included.
C26_ScoresCoverReturnedSignals ==
    Returned =>
        LET bull == SumWeights(analysis.signals, "bullish")
            bear == SumWeights(analysis.signals, "bearish")
        IN  /\ bull <= analysis.score.bull
            /\ bear <= analysis.score.bear
            /\ Len(signals) <= 5 =>
                  bull = analysis.score.bull /\ bear = analysis.score.bear
            /\ Len(signals) > 5 =>
                  /\ Len(analysis.signals) = 5
                  /\ bull + bear < analysis.score.bull + analysis.score.bear
                  /\ analysis.score.bull = SumWeights(signals, "bullish")
                  /\ analysis.score.bear = SumWeights(signals, "bearish")
                  /\ analysis.label =
                        OverallLabel(NetScore(SumWeights(signals, "bullish"),
                                              SumWeights(signals, "bearish")))

\* More than five rules fired, and the label differs from the one the
\* returned list alone would give.
C26_Witness ==
    /\ Returned
    /\ Len(signals) > 5
    /\ analysis.label #
          OverallLabel(NetScore(SumWeights(analysis.signals, "bullish"),
                                SumWeights(analysis.signals, "bearish")))

\* At most five rules fired, on both sides.
C26_WitnessUntruncated ==
    /\ Returned
    /\ Len(signals) = 5
    /\ analysis.score.bull > 0 /\ analysis.score.bear > 0

\* The entries the hashrate rule pushes.
HashrateReasons == {"Hashrate en hausse - mineurs confiants",
                    "Hashrate en chute - mineurs en difficulte",
                    "Hashrate en baisse"}

IsHashrateEntry(e) == e.reason \in HashrateReasons

\* s is the one entry of type t and weight w.
IsOne(s, t, w) == Len(s) = 1 /\ s[1].type = t /\ s[1].weight = w

\* C27: in every record fetchHashrate returns, the fallback included, the
\* signal is bullish iff the trend is rising and bearish iff it is crashing;
\* on such a record the aggregator's hashrate rule pushes at most one entry:
\* bullish weight 1 iff the trend is rising, bearish weight 2 iff crashing,
\* bearish weight 1 iff dropping, none for stable, falling and unknown.
C27_HashrateSignalAndRule ==
    /\ (pc = "returned" /\ record # Null) =>
          /\ record.signal = "bullish" <=> record.trend = "rising"
          /\ record.signal = "bearish" <=> record.trend = "crashing"
          /\ record.trend \in {"rising", "crashing", "dropping", "stable",
                                "falling", "unknown"}
    /\ Returned =>
          LET h == SelectSeq(signals, IsHashrateEntry)
              trend == data.hashrate.trend
          IN  /\ Len(h) <= 1
              /\ IsOne(h, "bullish", 1) <=> trend = "rising"
              /\ IsOne(h, "bearish", 2) <=> trend = "crashing"
              /\ IsOne(h, "bearish", 1) <=> trend = "dropping"
              /\ h = << >> <=> trend \in {"stable", "falling", "unknown"}
              /\ Len(h) = 1 => h[1].reason =
                    (IF trend = "rising"
                     THEN "Hashrate en hausse - mineurs confiants"
                     ELSE IF trend = "crashing"
                     THEN "Hashrate en chute - mineurs en difficulte"
                     ELSE "Hashrate en baisse")

\* The aggregate of a crashing record, beside other entries.
C27_Witness ==
    /\ Returned
    /\ data.hashrate = fetchHashrate(raw)
    /\ data.hashrate.trend = "crashing"
    /\ Len(signals) > 1
    /\ IsOne(SelectSeq(signals, IsHashrateEntry), "bearish", 2)

C27_WitnessRising ==
    Returned /\ data.hashrate.trend = "rising"
             /\ IsOne(SelectSeq(signals, IsHashrateEntry), "bullish", 1)

C27_WitnessDropping ==
    Returned /\ data.hashrate.trend = "dropping"
             /\ IsOne(SelectSeq(signals, IsHashrateEntry), "bearish", 1)

C27_WitnessStable ==
    Returned /\ data.hashrate.trend = "stable" /\ Len(signals) > 0

C27_WitnessFalling ==
    Returned /\ data.hashrate.trend = "falling" /\ Len(signals) > 0

C27_WitnessFallback ==
    Returned /\ data.hashrate = HashrateFallback /\ Len(signals) > 0

C27_WitnessRecord ==
    pc = "returned" /\ record # Null /\ record.trend = "dropping"
                    /\ record.signal = "neutral"

============================================================================
